---- MODULE Spec2Model ----
(***************************************************************************)
(* Verification model of the subsync pipeline: the subscription fetcher,  *)
(* the subscription parser, the node deduplicator, the node prober, the   *)
(* IP locator and the sync orchestrator (sync-subscriptions script).       *)
(***************************************************************************)
EXTENDS Integers, Sequences, FiniteSets, TLC

(***************************************************************************)
(* Bounds of the model.                                                    *)
(***************************************************************************)
MaxNodes == 3
\* largest configured options.maxRetries of a fetcher
MaxRetriesCfg == 3
\* number of fetch calls made on one fetcher
MaxCalls == 2
\* longest list of records a decoder extracts from one payload
MaxRecs == 2
\* longest list of subscriptions in the configuration file
MaxSubs == 3
\* number of sync runs (processes) started one after the other
MaxRuns == 2

\* longest list of nodes handed to NodeTester.testNodes
MaxProbeNodes == 3
\* largest options.concurrency of a NodeTester
MaxConcurrency == 3

\* longest list of nodes the subscriptions of one run yield
MaxPostNodes == 2

\* number of calls of locate made on one IPLocator
MaxLocates == 2
\* number of requests the locator sends to its providers
MaxRequests == 4

\* node.extra.latency when the field is null or undefined
NoLatency == -1

VARIABLES
  d_pc,        \* deduplicator: "idle" | "ready" | "done"
  d_in,        \* deduplicate(nodes): the input array
  d_prefer,    \* options.preferLower
  d_out,       \* the returned array
  d_again      \* what deduplicate returned when called on d_out

dedupVars == <<d_pc, d_in, d_prefer, d_out, d_again>>

VARIABLES
  f_pc,          \* fetcher: "idle" | "loop" | "returned" | "thrown"
  f_maxRetries,  \* this.maxRetries
  f_defaultUA,   \* this.defaultOptions.headers['User-Agent']
  f_shared,      \* the call's headers object is this.defaultOptions.headers
  f_headerUA,    \* baseFetchOptions.headers['User-Agent'] of the call
  f_attempt,     \* loop variable attempt
  f_uaIndex,     \* uaIndex (0-based)
  f_useProxy,    \* useProxy
  f_lastError,   \* lastError
  f_thrown,      \* the error carried by the Error thrown after the loop
  f_sent,        \* User-Agent of each request dispatched by the call, in order
  f_lastOutcome, \* outcome of the most recent attempt
  f_calls,       \* fetch calls started on this fetcher
  f_callUA,      \* User-Agent of the merged request headers when the call began
  f_configUA     \* the default User-Agent header the constructor set

fetchVars == <<f_pc, f_maxRetries, f_defaultUA, f_shared, f_headerUA, f_attempt,
               f_uaIndex, f_useProxy, f_lastError, f_thrown, f_sent,
               f_lastOutcome, f_calls, f_callUA, f_configUA>>

VARIABLES
  p_pc,       \* parser: "idle" | "ready" | "returned" | "thrown"
  p_raw,      \* the payload handed to parse(raw)
  p_result    \* the array parse returned

parseVars == <<p_pc, p_raw, p_result>>

VARIABLES
  r_pc,          \* position of the sync run in main
  r_run,         \* number of the run (process) since the first one
  r_subs,        \* CONFIG.subscriptions
  r_dedupOn,     \* CONFIG.options.deduplication
  r_idx,         \* position of the for loop of fetchAndMergeAllNodes
  r_outcome,     \* what happened to each subscription in this run
  r_allNodes,    \* allNodes
  r_counts,      \* successCount and failedCount
  r_dedupInput,  \* the arrays handed to deduplicator.deduplicate in this run
  r_rawNodes,    \* rawNodes of main
  r_finalNodes,  \* finalNodes of main
  r_prevCount,   \* previousNodeCount
  r_statusFile,  \* finalNodesCount in data/sync_status.json
  r_events,      \* events emitted during this run
  r_stagesDone,  \* the run has gone through every stage of the pipeline
  r_exit,        \* exit code of the process
  r_lastFinal    \* number of final nodes of the run before this one

runVars == <<r_pc, r_run, r_subs, r_dedupOn, r_idx, r_outcome, r_allNodes, r_counts,
             r_dedupInput, r_rawNodes, r_finalNodes, r_prevCount, r_statusFile,
             r_events, r_stagesDone, r_exit, r_lastFinal>>

VARIABLES
  t_pc,        \* NodeTester.testNodes: "idle" | "ready" | "running" | "returned"
  t_nodes,     \* the nodes argument
  t_concurrency, \* this.concurrency
  t_verify,    \* this.verifyLocation
  t_queue,     \* queue: positions in t_nodes of the nodes not yet taken
  t_current,   \* per worker: position of the node it is testing, 0 when it has returned
  t_results,   \* results
  t_probes     \* per entry of results: what checkConnectivity and locate did

probeVars == <<t_pc, t_nodes, t_concurrency, t_verify, t_queue, t_current, t_results,
               t_probes>>

VARIABLES
  m_pc,        \* main from the merged nodes on: "idle" | "merged" | "named" |
               \* "tested" | "filtered" | "final" | "grouped" | "harvested"
  m_cfg,       \* TESTING_CONFIG
  m_source,    \* the nodes of the subscriptions, deduplicated
  m_rawNodes,  \* rawNodes: what fetchAndMergeAllNodes returned
  m_tester,    \* testNodes returned a tester
  m_results,   \* testResults
  m_filtered,  \* finalNodes after the block that handles the test results
  m_final,     \* finalNodes after the filter on China nodes
  m_files,     \* output/groups: the lines of each file written
  m_cache      \* data/ip_cache/china_proxies.json

postVars == <<m_pc, m_cfg, m_source, m_rawNodes, m_tester, m_results, m_filtered,
              m_final, m_files, m_cache>>

VARIABLES
  l_status,    \* IPLocator: provider.status of each entry of apiProviders
  l_counter,   \* requestCounter of each provider
  l_current,   \* the index of currentProvider in apiProviders
  l_cache,     \* the addresses in memoryCache and in the region cache
  l_calls,     \* the calls of locate: position, address, result
  l_requests   \* the requests sent: provider and its status when sent

locateVars == <<l_status, l_counter, l_current, l_cache, l_calls, l_requests>>

VARIABLES
  h_checks,      \* HealthCheck: the checks added to the global healthCheck
  h_middlewares, \* Router: this.middlewares
  h_results,     \* the status of each entry of `checks` in the last health result
  h_status,      \* the overall status of the last health result
  h_answer,      \* the HTTP status the last request was answered with
  h_path,        \* the path of the last request
  h_outcomes,    \* what each check would do during the last request
  h_requests     \* the number of requests handled

healthVars == <<h_checks, h_middlewares, h_results, h_status, h_answer, h_path,
                h_outcomes, h_requests>>

VARIABLES
  c_pc,      \* NodeAnalyzer.analyze: position of the call
  c_name,    \* node.name
  c_result   \* the country part of the result

classifyVars == <<c_pc, c_name, c_result>>

VARIABLES
  e_list,    \* the URI list given to both parsers
  e_plain,   \* what PlainTextParser.parse returned for the list
  e_base64,  \* what Base64Parser.parse returned for its base64 text
  e_done     \* the parsers that have returned

envelopeVars == <<e_list, e_plain, e_base64, e_done>>

VARIABLES
  b_now,           \* BarkNotifier: Date.now(), in minutes
  b_lastPushTime,  \* this.lastPushTime
  b_inFlight,      \* the listeners waiting in sendNotification
  b_sent           \* the requests sent to the Bark server

barkVars == <<b_now, b_lastPushTime, b_inFlight, b_sent>>

\* the components of the worker and of the notifier
serviceVars == <<healthVars, classifyVars, envelopeVars, barkVars>>

vars == <<r_pc, r_run, r_subs, r_dedupOn, r_idx, r_outcome, r_allNodes, r_counts,
          r_dedupInput, r_rawNodes, r_finalNodes, r_prevCount, r_statusFile,
          r_events, r_stagesDone, r_exit, r_lastFinal,
          p_pc, p_raw, p_result, d_pc, d_in, d_prefer, d_out, d_again,
          f_pc, f_maxRetries, f_defaultUA, f_shared, f_headerUA, f_attempt,
          f_uaIndex, f_useProxy, f_lastError, f_thrown, f_sent,
          f_lastOutcome, f_calls, f_callUA, f_configUA,
          t_pc, t_nodes, t_concurrency, t_verify, t_queue, t_current, t_results,
          t_probes,
          m_pc, m_cfg, m_source, m_rawNodes, m_tester, m_results, m_filtered,
          m_final, m_files, m_cache,
          l_status, l_counter, l_current, l_cache, l_calls, l_requests,
          h_checks, h_middlewares, h_results, h_status, h_answer, h_path,
          h_outcomes, h_requests,
          c_pc, c_name, c_result,
          e_list, e_plain, e_base64, e_done,
          b_now, b_lastPushTime, b_inFlight, b_sent>>

Range(s) == {s[i] : i \in 1..Len(s)}

(***************************************************************************)
(* NodeDeduplicator                                                        *)
(***************************************************************************)
Servers == {"a.example", "b.example"}
Ports == {443}
Protocols == {"ss", "vmess"}
\* node.extra.latency: absent, or a number of milliseconds
Latencies == {NoLatency, 0, 10, 20}

\* compareFields default of deduplicate
compareFields == <<"server", "port", "protocol">>

\* `${value}` of the template literal in generateKey: the field as a string
FieldOf(node, field) ==
  CASE field = "server" -> node.server
    [] field = "port" -> ToString(node.port)
    [] field = "protocol" -> node.protocol

RECURSIVE JoinBar(_)
JoinBar(parts) ==
  IF Len(parts) = 0 THEN ""
  ELSE IF Len(parts) = 1 THEN parts[1]
  ELSE parts[1] \o "|" \o JoinBar(Tail(parts))

\* generateKey(node, fields): "server:<s>|port:<p>|protocol:<q>"
generateKey(node, fields) ==
  JoinBar([i \in 1..Len(fields) |-> fields[i] \o ":" \o FieldOf(node, fields[i])])

\* A JavaScript Map as the sequence of its entries in insertion order.
MapHas(m, k) == \E i \in 1..Len(m) : m[i].key = k

\* Map.prototype.get for a key the map holds
MapGet(m, k) == (CHOOSE e \in Range(m) : e.key = k).node

\* a re-insertion that deletes the entry first and so moves the key to the end
MapSetMoveToEnd(m, k, v) ==
  Append(SelectSeq(m, LAMBDA e : e.key # k), [key |-> k, node |-> v])

\* an insertion that never overwrites
MapSetAlwaysAppend(m, k, v) == Append(m, [key |-> k, node |-> v])

\* Map.prototype.set: an existing key keeps its position
MapSet(m, k, v) ==
  IF MapHas(m, k)
  THEN [i \in 1..Len(m) |-> IF m[i].key = k THEN [key |-> k, node |-> v] ELSE m[i]]
  ELSE Append(m, [key |-> k, node |-> v])

\* JavaScript truthiness of a latency value: null, undefined and 0 are falsy
Truthy(l) == l # NoLatency /\ l # 0

\* the comparison turned around
LowerLatencyWinsReversed(node, existingNode, preferLower) ==
  /\ preferLower
  /\ Truthy(node.latency)
  /\ Truthy(existingNode.latency)
  /\ node.latency > existingNode.latency

\* the replacement condition of deduplicate
LowerLatencyWins(node, existingNode, preferLower) ==
  /\ preferLower
  /\ Truthy(node.latency)
  /\ Truthy(existingNode.latency)
  /\ node.latency < existingNode.latency

\* one iteration of the for loop of deduplicate
DedupIter(uniqueNodes, node, preferLower) ==
  LET key == generateKey(node, compareFields)
  IN  IF ~MapHas(uniqueNodes, key)
      THEN MapSet(uniqueNodes, key, node)
      ELSE IF LowerLatencyWins(node, MapGet(uniqueNodes, key), preferLower)
           THEN MapSet(uniqueNodes, key, node)
           ELSE uniqueNodes

RECURSIVE DedupLoop(_, _, _)
DedupLoop(nodes, uniqueNodes, preferLower) ==
  IF nodes = <<>> THEN uniqueNodes
  ELSE DedupLoop(Tail(nodes), DedupIter(uniqueNodes, Head(nodes), preferLower), preferLower)

\* a deduplicate that returns the values of the map last to first
deduplicateReversed(nodes, preferLower) ==
  LET m == DedupLoop(nodes, <<>>, preferLower)
  IN  [i \in 1..Len(m) |-> m[Len(m) + 1 - i].node]

\* NodeDeduplicator.deduplicate(nodes, {preferLower})
deduplicate(nodes, preferLower) ==
  LET m == DedupLoop(nodes, <<>>, preferLower)
  IN  [i \in 1..Len(m) |-> m[i].node]

\* the arrays deduplicate is applied to: element i of the array is the node
\* object with id i, so that two nodes with equal fields stay distinct objects
NodeFields == [server : Servers, port : Ports, protocol : Protocols, latency : Latencies]

DedupNode(i, f) ==
  [id |-> i, server |-> f.server, port |-> f.port, protocol |-> f.protocol,
   latency |-> f.latency]

DedupInputs(n) ==
  {[i \in 1..n |-> DedupNode(i, fs[i])] : fs \in [1..n -> NodeFields]}

DedupIdle ==
  /\ d_pc = "idle"
  /\ d_in = <<>>
  /\ d_prefer = TRUE
  /\ d_out = <<>>
  /\ d_again = <<>>

(***************************************************************************)
(* SubscriptionParser                                                      *)
(***************************************************************************)
\* All sequences over S of length at most n
SeqsUpTo(S, n) == UNION {[1..k -> S] : k \in 0..n}

\* Object.entries(this.parsers): the decoders in the order of the constructor
ParserOrder == <<"base64", "json", "yaml", "plain">>
Formats == Range(ParserOrder)

\* the result of parseInt for a value that is not a number
NaN == -1

\* parseInt(node.port) for the port texts of the model
ParseInt(text) ==
  CASE text = "0" -> 0
    [] text = "443" -> 443
    [] text = "65535" -> 65535
    [] text = "70000" -> 70000
    [] OTHER -> NaN

\* the port of a decoded record: a number (port: parseInt(..)) or the raw
\* string of the advertisement (port: config.port)
PortValue(isString, text) == [isString |-> isString, text |-> text]

\* JavaScript truthiness of a decoded port: 0, NaN and "" are falsy
PortTruthy(port) ==
  IF port.isString THEN port.text # ""
  ELSE ParseInt(port.text) # 0 /\ ParseInt(port.text) # NaN

\* records as the format decoders hand them to normalize
DecodedRecords ==
  { [type |-> "vmess", server |-> "h.example", port |-> PortValue(FALSE, "443"),
     protocol |-> "vmess"],
    [type |-> "trojan", server |-> "h.example", port |-> PortValue(FALSE, "70000"),
     protocol |-> "trojan"],
    [type |-> "vmess", server |-> "h.example", port |-> PortValue(TRUE, "abc"),
     protocol |-> "vmess"],
    [type |-> "socks", server |-> "h.example", port |-> PortValue(FALSE, "0"),
     protocol |-> "socks"],
    [type |-> "vmess", server |-> "", port |-> PortValue(FALSE, "443"),
     protocol |-> "vmess"] }

\* what a decoder does with a payload inside its try block: it throws, or it
\* extracts a list of records
DecodeOutcome(throws, records) == [throws |-> throws, records |-> records]
DecodeFailure == DecodeOutcome(TRUE, <<>>)
\* the decoders whose try block can throw on a string: JSON.parse and
\* yaml.load reject malformed text and the container walk dereferences what
\* they return; the URI decoders catch per line and skip the line
ThrowingDecoders == {"json", "yaml"}

Failures(g) == IF g \in ThrowingDecoders THEN {DecodeFailure} ELSE {}

\* the outcomes of the decoder detectFormat chose, and of the other decoders
OwnOutcomes(g) ==
  Failures(g) \cup {DecodeOutcome(FALSE, rs) : rs \in SeqsUpTo(DecodedRecords, MaxRecs)}
BackupOutcomes(g) ==
  Failures(g) \cup {DecodeOutcome(FALSE, <<>>)}
    \cup {DecodeOutcome(FALSE, <<r>>) : r \in {x \in DecodedRecords : x.port.text = "443"}}

\* a payload: whether it is empty, the format detectFormat returns for it and
\* what each decoder does with it
PayloadsOfFormat(f) ==
  {[empty |-> e, format |-> f, decode |-> dec] :
     e \in BOOLEAN,
     dec \in {[g \in Formats |-> IF g = f THEN own ELSE others[g]] :
                own \in OwnOutcomes(f),
                others \in {o \in [Formats -> BackupOutcomes("json")] :
                              \A g \in Formats : o[g] \in BackupOutcomes(g)}}}

\* Base64Parser / JsonParser / YamlParser / PlainTextParser .parse(raw): the
\* body is one try block whose catch logs the error and returns []
DecoderParse(raw, format) ==
  IF raw.decode[format].throws
  THEN [threw |-> FALSE, nodes |-> <<>>]
  ELSE [threw |-> FALSE, nodes |-> raw.decode[format].records]

\* the filter of normalize: node && node.type && node.server && node.port
NormalizeKeeps(node) ==
  /\ node.type # ""
  /\ node.server # ""
  /\ PortTruthy(node.port)

\* the map of normalize
NormalizeNode(node) ==
  [type |-> node.type, server |-> node.server, port |-> ParseInt(node.port.text),
   protocol |-> node.protocol]

\* SubscriptionParser.normalize(nodes)
normalize(nodes) ==
  LET kept == SelectSeq(nodes, NormalizeKeeps)
  IN  [i \in 1..Len(kept) |-> NormalizeNode(kept[i])]

ParseReturned(nodes) == [thrown |-> FALSE, nodes |-> nodes]
ParseThrown == [thrown |-> TRUE, nodes |-> <<>>]

\* the for loop over the backup parsers in the catch block of parse
RECURSIVE BackupParse(_, _, _)
BackupParse(raw, format, order) ==
  IF order = <<>> THEN ParseThrown
  ELSE IF Head(order) = format THEN BackupParse(raw, format, Tail(order))
  ELSE LET r == DecoderParse(raw, Head(order))
       IN  IF r.threw THEN BackupParse(raw, format, Tail(order))
           ELSE ParseReturned(normalize(r.nodes))

\* SubscriptionParser.parse(raw)
parse(raw) ==
  IF raw.empty THEN ParseThrown
  ELSE LET r == DecoderParse(raw, raw.format)
       IN  IF r.threw THEN BackupParse(raw, raw.format, ParserOrder)
           ELSE ParseReturned(normalize(r.nodes))

ParseIdle ==
  /\ p_pc = "idle"
  /\ p_raw = [empty |-> TRUE, format |-> "yaml", decode |-> [g \in Formats |-> DecodeFailure]]
  /\ p_result = <<>>

InitParse ==
  /\ p_pc = "ready"
  /\ p_raw \in UNION {PayloadsOfFormat(f) : f \in Formats}
  /\ p_result = <<>>

\* a call parse(raw) that returns
ParseReturn ==
  /\ p_pc = "ready"
  /\ ~parse(p_raw).thrown
  /\ p_result' = parse(p_raw).nodes
  /\ p_pc' = "returned"
  /\ UNCHANGED p_raw

\* a call parse(raw) that throws
ParseThrow ==
  /\ p_pc = "ready"
  /\ parse(p_raw).thrown
  /\ p_pc' = "thrown"
  /\ UNCHANGED <<p_raw, p_result>>

(***************************************************************************)
(* SubscriptionFetcher                                                     *)
(***************************************************************************)
\* this.userAgents
userAgents ==
  << "v2rayN/5.29",
     "Clash/1.15.1",
     "Mozilla/5.0 (Windows NT 10.0; Win64; x64) Chrome/120.0.0.0",
     "Mozilla/5.0 (Macintosh; Intel Mac OS X 10_15_7) Safari/605.1.15",
     "Mozilla/5.0 (iPhone; CPU iPhone OS 17_2 like Mac OS X) Mobile/15E148",
     "Mozilla/5.0 (Windows NT 10.0; Win64; x64; rv:121.0) Firefox/121.0",
     "ShadowrocketNG/2.0",
     "Stash/2.4.6",
     "Quantumult/1.0.0",
     "ClashForAndroid/2.5.12" >>

\* userAgents[i] with the 0-based index of the code
UserAgentAt(i) == userAgents[i + 1]

\* options.userAgent || 'v2rayN/5.29'
DefaultUserAgent(optUserAgent) ==
  IF optUserAgent = "" THEN "v2rayN/5.29" ELSE optUserAgent

\* options.proxyFallbackThreshold || 5
proxyFallbackThreshold == 5

\* values of options.userAgent of the constructor ("" when not given)
UserAgentOptions == {"", "v2rayN/5.29", "MyClient/1.0"}

\* the options of a fetch call: no headers, headers without a User-Agent,
\* or headers with a User-Agent (as sync sets for some domains)
NoHeaders == "<no headers>"
NoUAHeader == "<no User-Agent header>"
CallHeaders ==
  {NoHeaders, NoUAHeader, "",
   "Mozilla/5.0 (Macintosh; Intel Mac OS X 10_15_7) Safari/605.1.15"}

\* what one attempt can end with
NoError == "undefined"
AttemptErrors == {"request-timeout", "network", "http-status", "empty-body"}

\* totalAttempts = this.maxRetries * this.userAgents.length
totalAttempts == f_maxRetries * Len(userAgents)

\* _mergeOptions: the User-Agent of the merged headers
MergedUA(defaultUA, callHeaders) ==
  IF callHeaders \in {NoHeaders, NoUAHeader} THEN defaultUA ELSE callHeaders

\* the User-Agent switch forgotten: the header is left as it is
AttemptUAStuck(attempt, uaIndex, headerUA, maxRetries) ==
  [uaIndex |-> uaIndex, ua |-> headerUA]

\* the User-Agent switch at the head of an attempt: the new uaIndex and the
\* User-Agent left in the headers object
AttemptUA(attempt, uaIndex, headerUA, maxRetries) ==
  IF attempt > 0 /\ attempt % maxRetries = 0
  THEN LET next == (uaIndex + 1) % Len(userAgents)
       IN  [uaIndex |-> next, ua |-> UserAgentAt(next)]
  ELSE IF attempt = 0
       THEN [uaIndex |-> uaIndex,
             ua |-> IF headerUA = "" THEN UserAgentAt(uaIndex) ELSE headerUA]
       ELSE [uaIndex |-> uaIndex, ua |-> headerUA]

\* lastError kept from the first failure
RecordErrorFirstOnly(lastError, error) ==
  IF lastError = NoError THEN error ELSE lastError

\* catch (error) { lastError = error; ... }
RecordError(lastError, error) == error

FetchIdle ==
  /\ f_pc = "idle"
  /\ f_maxRetries = 3
  /\ f_defaultUA = "v2rayN/5.29"
  /\ f_shared = FALSE
  /\ f_headerUA = ""
  /\ f_attempt = 0
  /\ f_uaIndex = 0
  /\ f_useProxy = FALSE
  /\ f_lastError = NoError
  /\ f_thrown = NoError
  /\ f_sent = <<>>
  /\ f_lastOutcome = NoError
  /\ f_calls = 0
  /\ f_callUA = ""
  /\ f_configUA = f_defaultUA

\* new SubscriptionFetcher(options)
InitFetcher ==
  /\ f_pc = "idle"
  /\ f_maxRetries \in 1..MaxRetriesCfg
  /\ \E ua \in UserAgentOptions : f_defaultUA = DefaultUserAgent(ua)
  /\ f_shared = FALSE
  /\ f_headerUA = ""
  /\ f_attempt = 0
  /\ f_uaIndex = 0
  /\ f_useProxy = FALSE
  /\ f_lastError = NoError
  /\ f_thrown = NoError
  /\ f_sent = <<>>
  /\ f_lastOutcome = NoError
  /\ f_calls = 0
  /\ f_callUA = ""
  /\ f_configUA = f_defaultUA

\* fetch(url, options) up to the head of the loop
FetchCall(callHeaders) ==
  /\ f_pc \in {"idle", "returned", "thrown"}
  /\ f_calls < MaxCalls
  /\ f_calls' = f_calls + 1
  /\ f_shared' = (callHeaders = NoHeaders)
  /\ f_headerUA' = MergedUA(f_defaultUA, callHeaders)
  /\ f_callUA' = MergedUA(f_defaultUA, callHeaders)
  /\ f_attempt' = 0
  /\ f_uaIndex' = 0
  /\ f_useProxy' = FALSE
  /\ f_lastError' = NoError
  /\ f_thrown' = NoError
  /\ f_sent' = <<>>
  /\ f_lastOutcome' = NoError
  /\ f_pc' = "loop"
  /\ UNCHANGED <<f_maxRetries, f_defaultUA, f_configUA>>

\* the part of an attempt up to the dispatch of the request
AttemptHead ==
  LET sw == AttemptUA(f_attempt, f_uaIndex, f_headerUA, f_maxRetries)
  IN  /\ f_pc = "loop"
      /\ f_attempt < totalAttempts
      /\ f_uaIndex' = sw.uaIndex
      /\ f_headerUA' = sw.ua
      /\ f_defaultUA' = IF f_shared THEN sw.ua ELSE f_defaultUA
      /\ f_useProxy' = (f_useProxy \/ f_attempt >= proxyFallbackThreshold)
      /\ f_sent' = Append(f_sent, sw.ua)

\* an attempt that gets a valid response: fetch returns
AttemptOk ==
  /\ AttemptHead
  /\ f_lastOutcome' = "ok"
  /\ f_pc' = "returned"
  /\ UNCHANGED <<f_maxRetries, f_shared, f_attempt, f_lastError, f_thrown, f_calls,
                 f_callUA, f_configUA>>

\* an attempt that fails: the catch block and the next round of the loop
AttemptFail(error) ==
  /\ AttemptHead
  /\ f_lastOutcome' = error
  /\ f_lastError' = RecordError(f_lastError, error)
  /\ f_attempt' = f_attempt + 1
  /\ UNCHANGED <<f_pc, f_maxRetries, f_shared, f_thrown, f_calls, f_callUA, f_configUA>>

\* after the loop: throw new Error(... lastError.message)
FetchThrow ==
  /\ f_pc = "loop"
  /\ f_attempt >= totalAttempts
  /\ f_thrown' = f_lastError
  /\ f_pc' = "thrown"
  /\ UNCHANGED <<f_maxRetries, f_defaultUA, f_shared, f_headerUA, f_attempt,
                 f_uaIndex, f_useProxy, f_lastError, f_sent, f_lastOutcome, f_calls, f_callUA,
                 f_configUA>>

(***************************************************************************)
(* NodeTester: the prober                                                  *)
(***************************************************************************)
\* the latency below which a node that connects is reported up
highLatencyFloor == 1000

\* locationInfo is null, or locate threw, or it has no country
NoLocation == ""

\* country codes ipLocator.locate reports
LocatedCountries == {"CN", "HK"}

\* the codes listed in countryCodeCorrections of runTest
CorrectableCountries == {"HK", "CN", "US", "JP", "SG", "KR", "GB", "TW"}

\* the key of countryCodeCorrections / the value of countryToEmoji for a code
EmojiOf(country) ==
  IF country \in CorrectableCountries THEN "flag-" \o country ELSE ""

\* a node name is modelled by the set of the marks it contains: country
\* codes, flag emojis, other words
NameIncludes(name, mark) == mark \in name

\* milliseconds between startTime and the return of checkConnectivity
Elapsed == {highLatencyFloor - 1, highLatencyFloor}

\* what checkConnectivity and ipLocator.locate do for one node: checkConnectivity
\* throws, or resolves with {status} after `elapsed` ms; locate is only
\* called for a node that connected, and the elapsed time is only read then
ProbeOutcomes ==
  {[threw |-> TRUE, status |-> FALSE, elapsed |-> 0, located |-> NoLocation],
   [threw |-> FALSE, status |-> FALSE, elapsed |-> 0, located |-> NoLocation]}
  \cup {[threw |-> FALSE, status |-> TRUE, elapsed |-> e, located |-> c] :
          e \in Elapsed, c \in LocatedCountries \cup {NoLocation}}

\* locationMismatch of runTest: the name does not carry the emoji or a code
\* of the located country
LocationMismatch(node, actualCountry) ==
  ~ /\ actualCountry \in CorrectableCountries
    /\ \/ NameIncludes(node.name, EmojiOf(actualCountry))
       \/ NameIncludes(node.name, actualCountry)

\* a floor test that lets a latency equal to the floor pass
BelowFloorInclusive(latency) == latency <= highLatencyFloor

\* `latency < 1000` of runTest
BelowFloor(latency) == latency < highLatencyFloor

\* runTest(node): the test result object of one node
runTest(node, o, verifyLocation) ==
  IF o.threw
  THEN [node |-> node, status |-> "down", latency |-> NoLatency, error |-> "thrown",
        needsLocationCorrection |-> FALSE, actualLocation |-> NoLocation]
  ELSE LET located == IF o.status /\ verifyLocation THEN o.located ELSE NoLocation
           needs == located # NoLocation /\ LocationMismatch(node, located)
           up == o.status /\ BelowFloor(o.elapsed)
       IN  [node |-> node,
            status |-> IF up THEN "up" ELSE "down",
            latency |-> IF up THEN o.elapsed ELSE NoLatency,
            error |-> IF ~o.status THEN "connect"
                      ELSE IF up THEN "" ELSE "latency too high",
            needsLocationCorrection |-> needs,
            actualLocation |-> IF needs THEN located ELSE NoLocation]

\* the names of the nodes handed to the prober
ProbeNames == {{}, {"HK"}}

ProbeNode(i, name) == [id |-> i, name |-> name]

ProbeIdle ==
  /\ t_pc = "idle"
  /\ t_nodes = <<>>
  /\ t_concurrency = 1
  /\ t_verify = FALSE
  /\ t_queue = <<>>
  /\ t_current = <<>>
  /\ t_results = <<>>
  /\ t_probes = <<>>

\* options.concurrency || 10 (0 stands for an option that is not given)
DefaultConcurrency == 10
Concurrency(option) == IF option = 0 THEN DefaultConcurrency ELSE option

\* a NodeTester and the list testNodes is about to be called with
InitProbe ==
  /\ t_pc = "ready"
  /\ \E n \in 0..MaxProbeNodes :
       \E name \in ProbeNames : t_nodes = [i \in 1..n |-> ProbeNode(i, name)]
  /\ \E option \in 0..MaxConcurrency : t_concurrency = Concurrency(option)
  /\ t_verify \in BOOLEAN
  /\ t_queue = <<>>
  /\ t_current = <<>>
  /\ t_results = <<>>
  /\ t_probes = <<>>

Min(a, b) == IF a < b THEN a ELSE b

\* a shift that removes two nodes and hands out one
ShiftSkipping(queue) ==
  IF queue = <<>> THEN [taken |-> 0, rest |-> <<>>]
  ELSE [taken |-> Head(queue),
        rest |-> IF Len(queue) >= 2 THEN Tail(Tail(queue)) ELSE <<>>]

\* queue.shift() by a worker: the position it takes (0 on an empty queue)
\* and the queue it leaves
Shift(queue) ==
  IF queue = <<>> THEN [taken |-> 0, rest |-> <<>>]
  ELSE [taken |-> Head(queue), rest |-> Tail(queue)]

\* testNodes up to `await Promise.all(workers)`: the queue is a copy of the
\* nodes, and each worker function runs up to its first await, in turn
TestNodesStart ==
  /\ t_pc = "ready"
  /\ LET n == Len(t_nodes)
         k == Min(t_concurrency, n)
     IN  /\ t_current' = [w \in 1..t_concurrency |-> IF w <= n THEN w ELSE 0]
         /\ t_queue' = [i \in 1..(n - k) |-> k + i]
  /\ t_results' = <<>>
  /\ t_pc' = "running"
  /\ UNCHANGED <<t_nodes, t_concurrency, t_verify, t_probes>>

\* the runTest of worker w settles: the worker pushes the result and
\* re-evaluates its while loop, taking the next node or returning
WorkerStep(w, o) ==
  /\ t_pc = "running"
  /\ w \in DOMAIN t_current
  /\ t_current[w] # 0
  /\ t_results' = Append(t_results, runTest(t_nodes[t_current[w]], o, t_verify))
  /\ t_probes' = Append(t_probes, o)
  /\ t_current' = [t_current EXCEPT ![w] = Shift(t_queue).taken]
  /\ t_queue' = Shift(t_queue).rest
  /\ UNCHANGED <<t_pc, t_nodes, t_concurrency, t_verify>>

\* Promise.all(workers) resolves and testNodes returns results
TestNodesReturn ==
  /\ t_pc = "running"
  /\ \A w \in DOMAIN t_current : t_current[w] = 0
  /\ t_pc' = "returned"
  /\ UNCHANGED <<t_nodes, t_concurrency, t_verify, t_queue, t_current, t_results,
                 t_probes>>

(***************************************************************************)
(* NodeAnalyzer and NodeManager: classification and renaming               *)
(***************************************************************************)
\* analysis === undefined / analysis.countryCode === null
NoAnalysis == [country |-> "", countryCode |-> "", protocol |-> "", tags |-> {},
               region |-> ""]

\* the keys of countryMap that occur in the modelled names, with their code;
\* the Chinese words of the source are written in pinyin: Xianggang is the
\* name of Hong Kong, Zhongguo of China, Meiguo of the United States,
\* zhongzhuan is the tag "relay", shili and zidingyi mark example nodes
CountryKeys == {"Xianggang", "Zhongguo", "Meiguo"}
CountryCodeOfKey(key) ==
  CASE key = "Xianggang" -> "HK"
    [] key = "Zhongguo" -> "CN"
    [] key = "Meiguo" -> "US"
    [] OTHER -> ""

\* the switch of analyze: the country name of a code
CountryNameOfCode(code) ==
  CASE code = "HK" -> "Xianggang"
    [] code = "CN" -> "Zhongguo"
    [] code = "US" -> "Meiguo"
    [] OTHER -> ""

\* tagMap: the tag of a keyword of the name
TagKeys == {"NF", "zhongzhuan"}
TagOfKey(key) == IF key = "NF" THEN "Netflix" ELSE key

\* protocolMap
ProtocolName(type) ==
  CASE type = "ss" -> "Shadowsocks"
    [] type = "vmess" -> "VMess"
    [] type = "trojan" -> "Trojan"
    [] type = "http" -> "HTTP"
    [] type = "socks5" -> "SOCKS5"
    [] OTHER -> type

\* NodeAnalyzer.analyze(node) with categorizeNode: region is
\* analysis.country || 'Unknown'
analyze(node) ==
  LET keys == node.name \cap CountryKeys
      code == IF keys = {} THEN "" ELSE CountryCodeOfKey(CHOOSE k \in keys : TRUE)
      country == CountryNameOfCode(code)
  IN  [country |-> country,
       countryCode |-> code,
       protocol |-> ProtocolName(node.type),
       tags |-> {TagOfKey(k) : k \in node.name \cap TagKeys},
       region |-> IF country = "" THEN "Unknown" ELSE country]

\* the notExample filter of NodeFilter
notExample(node) == ~NameIncludes(node.name, "shili") /\ ~NameIncludes(node.name, "zidingyi")

\* NodeManager.processNodes(nodes).nodes
processNodes(nodes) ==
  LET kept == SelectSeq(nodes, notExample)
  IN  [i \in 1..Len(kept) |-> [kept[i] EXCEPT !.analysis = analyze(kept[i])]]

\* NodeAnalyzer.generateName(analysis, options, index): the marks of the new
\* name and the number at its end
generateName(analysis, index) ==
  [marks |-> (IF analysis.countryCode # ""
              THEN {EmojiOf(analysis.countryCode), analysis.countryCode} ELSE {})
             \cup (IF analysis.protocol # "" THEN {analysis.protocol} ELSE {})
             \cup analysis.tags,
   number |-> index + 1]

\* NodeManager.renameNodes(nodes, options)
renameNodes(nodes) ==
  [i \in 1..Len(nodes) |->
     LET analysis == IF nodes[i].analysis = NoAnalysis THEN analyze(nodes[i])
                     ELSE nodes[i].analysis
         newName == generateName(analysis, i - 1)
     IN  [nodes[i] EXCEPT !.analysis = analysis, !.name = newName.marks,
                          !.number = newName.number]]

(***************************************************************************)
(* main from the probing on: filters, group files, proxy cache             *)
(***************************************************************************)
\* the flag emojis
Emojis == {EmojiOf(c) : c \in CorrectableCountries}

\* NodeTester.correctNodeLocations for one node and its test result
CorrectNode(node, testResult) ==
  IF /\ testResult.status = "up"
     /\ testResult.needsLocationCorrection
     /\ testResult.actualLocation # NoLocation
  THEN LET country == testResult.actualLocation
           emoji == IF EmojiOf(country) = "" THEN {} ELSE {EmojiOf(country)}
       IN  [node EXCEPT !.name = (node.name \ Emojis) \cup emoji,
                        !.country = country]
  ELSE node

\* testResults.find(r => r.node === node): positions of the results of a node
ResultsOf(node, testResults) ==
  {j \in 1..Len(testResults) : testResults[j].node.id = node.id}

\* NodeTester.correctNodeLocations(nodes, testResults)
correctNodeLocations(nodes, testResults) ==
  [i \in 1..Len(nodes) |->
     IF ResultsOf(nodes[i], testResults) = {} THEN nodes[i]
     ELSE CorrectNode(nodes[i],
                      testResults[CHOOSE j \in ResultsOf(nodes[i], testResults) :
                                    \A k \in ResultsOf(nodes[i], testResults) : j <= k])]

\* `latency || 99999` of the sort comparators
NoLatencyRank == 99999
LatencyRank(latency) == IF Truthy(latency) THEN latency ELSE NoLatencyRank

\* Array.prototype.sort with a comparator that subtracts ranks (ranks[i] is
\* the rank of seq[i]): stable
SortByRank(seq, ranks) ==
  LET n == Len(seq)
      Position(i) ==
        1 + Cardinality({j \in 1..n : \/ ranks[j] < ranks[i]
                                     \/ (ranks[j] = ranks[i] /\ j < i)})
  IN  [k \in 1..n |-> seq[CHOOSE i \in 1..n : Position(i) = k]]

\* a latency filter that keeps every result
WithinMaxLatencyOff(r, max_latency) == TRUE

\* `r.latency && r.latency <= TESTING_CONFIG.max_latency`
WithinMaxLatency(r, max_latency) == Truthy(r.latency) /\ r.latency <= max_latency

\* the branch of main for filter_invalid: keep the nodes that are up, correct
\* their locations, sort, filter by latency, cut to max_nodes
FilterInvalid(testResults, cfg, tester) ==
  LET validResults == SelectSeq(testResults, LAMBDA r : r.status = "up")
      nodesToCorrect == [i \in 1..Len(validResults) |-> validResults[i].node]
      corrected ==
        IF cfg.verify_location /\ tester
        THEN LET correctedNodes == correctNodeLocations(nodesToCorrect, validResults)
             IN  [i \in 1..Len(validResults) |->
                    [validResults[i] EXCEPT !.node = correctedNodes[i]]]
        ELSE validResults
      sorted == IF cfg.sort_by_latency /\ Len(corrected) > 0
                THEN SortByRank(corrected,
                                [i \in 1..Len(corrected) |->
                                   LatencyRank(corrected[i].latency)])
                ELSE corrected
      filteredResults ==
        IF cfg.max_latency > 0
        THEN SelectSeq(sorted, LAMBDA r : WithinMaxLatency(r, cfg.max_latency))
        ELSE sorted
      limited == IF cfg.max_nodes > 0 /\ Len(filteredResults) > cfg.max_nodes
                 THEN SubSeq(filteredResults, 1, cfg.max_nodes)
                 ELSE filteredResults
  IN  [i \in 1..Len(limited) |-> limited[i].node]

\* node.extra.test of a node that was not tested
NotTested == ""

\* the marks main adds to the name of a node it keeps with its test result
TestMarks(status, latency) ==
  IF status = "up"
  THEN {"check"} \cup (IF Truthy(latency) THEN {"ms"} ELSE {})
  ELSE IF status = "down" THEN {"cross"} ELSE {}

\* the rank of the comparator of the branch that keeps every node: the nodes
\* that are up first, by latency
KeepAllRank(node) ==
  IF node.testStatus = "up" THEN LatencyRank(node.testLatency) ELSE NoLatencyRank + 1

\* the branch of main without filter_invalid: every node is kept, marked
\* with its test result and sorted
KeepAll(rawNodes, testResults, cfg) ==
  LET marked ==
        [i \in 1..Len(rawNodes) |->
           IF ResultsOf(rawNodes[i], testResults) = {} THEN rawNodes[i]
           ELSE LET r == testResults[CHOOSE j \in ResultsOf(rawNodes[i], testResults) :
                                       \A k \in ResultsOf(rawNodes[i], testResults) : j <= k]
                IN  [rawNodes[i] EXCEPT !.testStatus = r.status,
                                        !.testLatency = r.latency,
                                        !.name = @ \cup TestMarks(r.status, r.latency)]]
  IN  IF cfg.sort_by_latency THEN SortByRank(marked, [i \in 1..Len(marked) |-> KeepAllRank(marked[i])]) ELSE marked

\* main, from `let finalNodes = rawNodes` to the end of the
\* `if (TESTING_CONFIG.enabled)` block
PostProbe(rawNodes, testResults, cfg, tester) ==
  IF ~cfg.enabled THEN rawNodes
  ELSE IF cfg.filter_invalid THEN FilterInvalid(testResults, cfg, tester)
  ELSE KeepAll(rawNodes, testResults, cfg)

\* the predicate of the filter on China nodes
IsChinaNode(node) ==
  \/ (node.analysis # NoAnalysis /\ node.analysis.countryCode = "CN")
  \/ (node.analysis # NoAnalysis /\ node.analysis.country = "Zhongguo")
  \/ \E mark \in {"Zhongguo", "CN", "CHINA", "guonei", "dalu"} :
       NameIncludes(node.name, mark)

\* finalNodes.filter(...) of main that removes the China nodes
FilterChina(nodes) == SelectSeq(nodes, LAMBDA n : ~IsChinaNode(n))

\* node.extra.raw: absent, the object a JSON or YAML record was parsed from,
\* or the URI a line of the subscription was parsed from
NoRaw == ""
RawObject == "object"
RawUri(i) == "uri-" \o ToString(i)

\* the kinds of node the parsers yield in the model: the marks of the name,
\* the type, the raw form, and whether settings allow to build a URI
NodeKinds == {"hk", "cn", "nf", "json", "relay"}
KindName(kind) ==
  CASE kind = "hk" -> {"Xianggang"}
    [] kind = "cn" -> {"Zhongguo"}
    [] kind = "nf" -> {"Meiguo", "NF"}
    [] kind = "json" -> {"NF"}
    [] OTHER -> {"zhongzhuan"}
KindType(kind) ==
  CASE kind = "hk" -> "ss"
    [] kind = "cn" -> "http"
    [] kind = "nf" -> "trojan"
    [] kind = "json" -> "vmess"
    [] OTHER -> "socks5"

\* a node as normalize returns it: object i, parsed from a record of the kind
MakeNode(i, server, protocol, kind) ==
  [id |-> i, server |-> server, port |-> 443, protocol |-> protocol,
   latency |-> NoLatency,
   name |-> KindName(kind), number |-> 0, type |-> KindType(kind),
   raw |-> IF kind = "json" THEN RawObject ELSE RawUri(i),
   settings |-> kind \in {"hk", "nf", "json"},
   analysis |-> NoAnalysis, country |-> "",
   testStatus |-> NotTested, testLatency |-> NoLatency]

\* the two backup nodes generated when no node was obtained
backupNodes ==
  << [id |-> 101, server |-> "127.0.0.1", port |-> 8388, protocol |-> "",
      latency |-> NoLatency,
      name |-> {"beiyong"}, number |-> 0, type |-> "ss", raw |-> NoRaw,
      settings |-> TRUE, analysis |-> NoAnalysis, country |-> "",
      testStatus |-> NotTested, testLatency |-> NoLatency],
     [id |-> 102, server |-> "127.0.0.1", port |-> 443, protocol |-> "",
      latency |-> NoLatency,
      name |-> {"beiyong"}, number |-> 0, type |-> "vmess", raw |-> NoRaw,
      settings |-> TRUE, analysis |-> NoAnalysis, country |-> "",
      testStatus |-> NotTested, testLatency |-> NoLatency] >>

\* fetchAndMergeAllNodes after deduplication: analysis, renaming, backup nodes
AnalyzeAndRename(nodes) ==
  LET named == IF Len(nodes) > 0 THEN renameNodes(processNodes(nodes)) ELSE nodes
  IN  IF Len(named) = 0 THEN backupNodes ELSE named

\* GroupManager._categorizeNode: the key of the region group of a node
RegionKey(node) ==
  IF node.analysis # NoAnalysis /\ node.analysis.region # ""
  THEN CASE node.analysis.region \in {"Hong Kong", "HK"} -> "HK"
         [] node.analysis.region \in {"Taiwan", "TW"} -> "TW"
         [] node.analysis.region \in {"Singapore", "SG"} -> "SG"
         [] node.analysis.region \in {"United States", "US"} -> "US"
         [] node.analysis.region \in {"Japan", "JP"} -> "JP"
         [] OTHER -> "OTHER"
  ELSE CASE node.name \cap {"Xianggang", "HK", "HONG", "KONG"} # {} -> "HK"
         [] node.name \cap {"Taiwan", "TW", "TAIWAN"} # {} -> "TW"
         [] node.name \cap {"Xinjiapo", "SG", "SINGAPORE"} # {} -> "SG"
         [] node.name \cap {"Meiguo", "US", "UNITED", "STATES"} # {} -> "US"
         [] node.name \cap {"Riben", "JP", "JAPAN"} # {} -> "JP"
         [] OTHER -> "OTHER"

\* the region groups that get a file: every group but 'other'
RegionFiles == {"HK", "TW", "SG", "US", "JP"}

\* GroupManager._categorizeNode: the media groups of a node
MediaKeys(node) ==
  IF node.name \cap {"Netflix", "NETFLIX", "NF"} # {} THEN {"Netflix"} ELSE {}

MediaFiles == {"Netflix"}

\* a line that is built from the settings whenever they allow it
GroupLineBuiltFirst(node) ==
  IF node.type \in {"vmess", "ss", "trojan", "ssr"} /\ node.settings
  THEN "built-" \o ToString(node.id)
  ELSE IF node.raw # NoRaw /\ node.raw # RawObject THEN node.raw ELSE ""

\* the line generateGroupedNodeFiles writes for a node: extra.raw when it is
\* a non-blank string, else a URI built from the settings, else nothing
GroupLine(node) ==
  IF node.raw # NoRaw /\ node.raw # RawObject THEN node.raw
  ELSE IF node.type \in {"vmess", "ss", "trojan", "ssr"} /\ node.settings
       THEN "built-" \o ToString(node.id)
       ELSE ""

\* the content of the file of a group
GroupFile(groupNodes) ==
  LET lines == [i \in 1..Len(groupNodes) |-> GroupLine(groupNodes[i])]
  IN  SelectSeq(lines, LAMBDA raw : raw # "")

\* the files generateGroupedNodeFiles(nodes) writes below output/groups
GroupFiles(nodes) ==
  LET regionNodes(key) == SelectSeq(nodes, LAMBDA n : RegionKey(n) = key)
      mediaNodes(key) == SelectSeq(nodes, LAMBDA n : key \in MediaKeys(n))
      regions == {key \in RegionFiles : regionNodes(key) # <<>>}
      media == {key \in MediaFiles : mediaNodes(key) # <<>>}
  IN  [f \in regions \cup media |->
         IF f \in regions THEN GroupFile(regionNodes(f)) ELSE GroupFile(mediaNodes(f))]

\* isChinaNode of the harvest of main (nothing sets node.extra.location)
IsEgressNode(node) ==
  \/ (node.analysis # NoAnalysis /\ node.analysis.country = "Zhongguo")
  \/ node.name \cap {"CN", "Zhongguo", "zhongzhuan", "guonei", "huiguo"} # {}

\* the proxy URL of a node: scheme://server:port
ProxyUrl(node) ==
  [scheme |-> IF node.type = "socks" THEN "socks5" ELSE node.type, node |-> node.id]

\* currentChinaProxies of main
HarvestProxies(nodes) ==
  LET candidates ==
        SelectSeq(nodes, LAMBDA n : /\ IsEgressNode(n)
                                    /\ n.type \in {"http", "https", "socks", "socks5"})
  IN  [i \in 1..Len(candidates) |-> ProxyUrl(candidates[i])]

\* p.startsWith('http') of saveChinaProxies and loadChinaProxies
StartsWithHttp(url) == url.scheme \in {"http", "https"}

\* the array saveChinaProxies(proxies) writes to the cache file
saveChinaProxies(proxies) == SelectSeq(proxies, StartsWithHttp)

\* the array loadChinaProxies() returns for a cache file
loadChinaProxies(file) == SelectSeq(file, StartsWithHttp)

\* TESTING_CONFIG as the script declares it
TESTING_CONFIG ==
  [enabled |-> TRUE, filter_invalid |-> TRUE, sort_by_latency |-> TRUE,
   max_latency |-> 2000, max_nodes |-> 100, verify_location |-> FALSE]

\* TESTING_CONFIG after loadConfig, for the `testing` sections of the model
TestingConfigs ==
  {TESTING_CONFIG,
   [TESTING_CONFIG EXCEPT !.verify_location = TRUE],
   [TESTING_CONFIG EXCEPT !.filter_invalid = FALSE],
   [TESTING_CONFIG EXCEPT !.enabled = FALSE],
   [TESTING_CONFIG EXCEPT !.max_latency = 500, !.max_nodes = 1],
   [TESTING_CONFIG EXCEPT !.max_latency = 0, !.max_nodes = 0,
                          !.sort_by_latency = FALSE]}

\* what the probe of one node can do: no connection, a connection at or below
\* the latency floor (slow, fast), and a location for a connected node
PostOutcomes ==
  {[threw |-> FALSE, status |-> FALSE, elapsed |-> 0, located |-> NoLocation]}
  \cup {[threw |-> FALSE, status |-> TRUE, elapsed |-> e, located |-> NoLocation] :
          e \in Elapsed \cup {100}}
  \cup {[threw |-> FALSE, status |-> TRUE, elapsed |-> highLatencyFloor - 1,
          located |-> c] : c \in LocatedCountries}

\* locate is only called by a tester that verifies locations, and nothing is
\* probed when testing is disabled
OutcomesFor(cfg) ==
  IF ~cfg.enabled THEN {[threw |-> TRUE, status |-> FALSE, elapsed |-> 0,
                         located |-> NoLocation]}
  ELSE IF cfg.verify_location THEN PostOutcomes
  ELSE {o \in PostOutcomes : o.located = NoLocation}

\* the orders in which the results of n nodes are pushed: the order of the
\* queue when every probe takes the same time, the reverse when they do not
Orders(n) == {[i \in 1..n |-> i], [i \in 1..n |-> n + 1 - i]}

PostIdle ==
  /\ m_pc = "idle"
  /\ m_cfg = TESTING_CONFIG
  /\ m_source = <<>>
  /\ m_rawNodes = <<>>
  /\ m_tester = FALSE
  /\ m_results = <<>>
  /\ m_filtered = <<>>
  /\ m_final = <<>>
  /\ m_files = <<>>
  /\ m_cache = <<>>

\* main when the subscriptions have been fetched, parsed and deduplicated
InitPost ==
  /\ m_pc = "merged"
  /\ m_cfg \in TestingConfigs
  /\ \E n \in 0..MaxPostNodes :
       m_source \in {[i \in 1..n |-> MakeNode(i, "s" \o ToString(i), "", kinds[i])] :
                       kinds \in [1..n -> NodeKinds]}
  /\ m_rawNodes = <<>>
  /\ m_tester = FALSE
  /\ m_results = <<>>
  /\ m_filtered = <<>>
  /\ m_final = <<>>
  /\ m_files = <<>>
  /\ m_cache = <<>>

\* the end of fetchAndMergeAllNodes
RenameStep ==
  /\ m_pc = "merged"
  /\ m_rawNodes' = AnalyzeAndRename(m_source)
  /\ m_pc' = "named"
  /\ UNCHANGED <<m_cfg, m_source, m_tester, m_results, m_filtered, m_final, m_files,
                 m_cache>>

\* testNodes(rawNodes, TESTING_CONFIG) of the script: no results when testing
\* is disabled or the tester throws
TestStep(outcomes, order, testerThrows) ==
  /\ m_pc = "named"
  /\ outcomes \in [1..Len(m_rawNodes) -> OutcomesFor(m_cfg)]
  /\ order \in Orders(Len(m_rawNodes))
  /\ IF ~m_cfg.enabled \/ testerThrows
     THEN m_results' = <<>> /\ m_tester' = FALSE
     ELSE /\ m_results' = [k \in 1..Len(m_rawNodes) |->
                             runTest(m_rawNodes[order[k]], outcomes[order[k]],
                                     m_cfg.verify_location)]
          /\ m_tester' = TRUE
  /\ m_pc' = "tested"
  /\ UNCHANGED <<m_cfg, m_source, m_rawNodes, m_filtered, m_final, m_files, m_cache>>

\* the block of main that handles the test results
ApplyResults ==
  /\ m_pc = "tested"
  /\ m_filtered' = PostProbe(m_rawNodes, m_results, m_cfg, m_tester)
  /\ m_pc' = "filtered"
  /\ UNCHANGED <<m_cfg, m_source, m_rawNodes, m_tester, m_results, m_final, m_files,
                 m_cache>>

\* the filter on China nodes
RemoveChinaNodes ==
  /\ m_pc = "filtered"
  /\ m_final' = FilterChina(m_filtered)
  /\ m_pc' = "final"
  /\ UNCHANGED <<m_cfg, m_source, m_rawNodes, m_tester, m_results, m_filtered, m_files,
                 m_cache>>

\* generateGroupedNodeFiles(finalNodes, CONFIG.options)
GenerateGroups(env) ==
  /\ m_pc = "final"
  /\ m_files' = IF Len(m_final) = 0 \/ env = "io-error" THEN <<>>
                ELSE GroupFiles(m_final)
  /\ m_pc' = "grouped"
  /\ UNCHANGED <<m_cfg, m_source, m_rawNodes, m_tester, m_results, m_filtered, m_final,
                 m_cache>>

\* the harvest of the egress proxies and saveChinaProxies
Harvest ==
  /\ m_pc = "grouped"
  /\ m_cache' = saveChinaProxies(HarvestProxies(m_final))
  /\ m_pc' = "harvested"
  /\ UNCHANGED <<m_cfg, m_source, m_rawNodes, m_tester, m_results, m_filtered, m_final,
                 m_files>>

(***************************************************************************)
(* The IP locator                                                          *)
(***************************************************************************)
\* apiProviders of a locator built without options.apiUrl: none needs a key
apiProviders == <<"ip-api", "freeipapi", "iplocation.net">>
\* the rateLimit of each provider: requests per minute
rateLimit == <<45, 30, 30>>

ProviderIds == DOMAIN apiProviders

\* the addresses locate is called with: two IP addresses and a domain name
Addresses == {"1.1.1.1", "2.2.2.2", "host.example"}
isIPAddress(ip) == ip # "host.example"

\* the locator as one record
Locator == [status |-> l_status, counter |-> l_counter, current |-> l_current]

\* checkAndResetCounter(): after a minute the counters are emptied and the
\* limited providers are ready again
checkAndResetCounter(L, minutePassed) ==
  IF minutePassed
  THEN [L EXCEPT !.counter = [p \in ProviderIds |-> 0],
                 !.status = [p \in ProviderIds |->
                               IF L.status[p] = "limited" THEN "ready" ELSE L.status[p]]]
  ELSE L

\* isProviderLimited(provider): its return value
isProviderLimited(L, p) ==
  L.status[p] # "ready" \/ L.counter[p] >= rateLimit[p]

\* isProviderLimited(provider): a ready provider that reached its rate limit
\* is marked limited
MarkLimited(L, p) ==
  IF L.status[p] = "ready" /\ L.counter[p] >= rateLimit[p]
  THEN [L EXCEPT !.status[p] = "limited"]
  ELSE L

\* the i-th provider the loop of switchToNextProvider looks at
NextIndex(L, i) == ((L.current - 1 + i) % Len(apiProviders)) + 1

\* switchToNextProvider(): the first ready provider after the current one
\* becomes the current one; without a ready provider nothing changes
switchToNextProvider(L) ==
  LET found == {i \in 1..Len(apiProviders) : L.status[NextIndex(L, i)] = "ready"}
  IN  IF found = {} THEN L
      ELSE [L EXCEPT !.current = NextIndex(L, CHOOSE i \in found : \A j \in found : i <= j)]

\* incrementRequestCounter(providerName)
incrementRequestCounter(L, p) == [L EXCEPT !.counter[p] = @ + 1]

\* locate from checkAndResetCounter to incrementRequestCounter
BeforeRequest(L, minutePassed) ==
  LET reset == checkAndResetCounter(L, minutePassed)
      marked == MarkLimited(reset, reset.current)
      switched == IF isProviderLimited(reset, reset.current)
                  THEN switchToNextProvider(marked) ELSE marked
  IN  incrementRequestCounter(switched, switched.current)

\* a call of locate that has not been made
\* (requests: the requests it sent; provider: the provider of its last
\* request; used and usedFor: the provider it last read from currentProvider
\* after a response, and the provider that response came from)
NoCall == [pc |-> "idle", ip |-> "", result |-> "", noneReady |-> FALSE,
           requests |-> 0, provider |-> 0, used |-> 0, usedFor |-> 0]

LocateIdle ==
  /\ l_status = <<>>
  /\ l_counter = <<>>
  /\ l_current = 0
  /\ l_cache = {}
  /\ l_calls = <<>>
  /\ l_requests = <<>>

\* the states a locator is started from: after its constructor; after it
\* located rateLimit - 1 addresses through its first provider within the
\* minute; and the same after the two other providers answered 429 in this
\* minute (the second provider was the current one when the minute began)
LocatorStarts ==
  {[status |-> <<"ready", "ready", "ready">>, counter |-> <<0, 0, 0>>, current |-> 1],
   [status |-> <<"ready", "ready", "ready">>,
    counter |-> <<rateLimit[1] - 1, 0, 0>>, current |-> 1],
   [status |-> <<"ready", "limited", "limited">>,
    counter |-> <<rateLimit[1] - 1, 1, 1>>, current |-> 1]}

InitLocate ==
  /\ \E L \in LocatorStarts :
       /\ l_status = L.status
       /\ l_counter = L.counter
       /\ l_current = L.current
  /\ l_cache = {}
  /\ l_calls = [c \in 1..MaxLocates |-> NoCall]
  /\ l_requests = <<>>

\* locate(ip) of call c, with the locator in state L, up to its first await
\* or its return without a request
LocateFrom(c, ip, L, minutePassed, used) ==
  IF ~isIPAddress(ip) \/ ip \in l_cache
  THEN /\ l_calls' = [l_calls EXCEPT ![c] =
                        [@ EXCEPT !.used = used, !.usedFor = l_calls[c].provider,
                                  !.pc = "returned", !.ip = ip,
                                  !.result = IF isIPAddress(ip) THEN "cached" ELSE "basic"]]
       /\ l_status' = L.status
       /\ l_counter' = L.counter
       /\ l_current' = L.current
       /\ UNCHANGED <<l_cache, l_requests>>
  ELSE LET B == BeforeRequest(L, minutePassed)
       IN  /\ l_status' = B.status
           /\ l_counter' = B.counter
           /\ l_current' = B.current
           /\ l_requests' = Append(l_requests,
                                   [provider |-> B.current,
                                    status |-> B.status[B.current]])
           /\ l_calls' = [l_calls EXCEPT ![c] =
                            [@ EXCEPT !.pc = "waiting", !.ip = ip,
                                      !.used = used,
                                      !.usedFor = l_calls[c].provider,
                                      !.requests = @ + 1,
                                      !.provider = B.current,
                                      !.noneReady = \A p \in ProviderIds :
                                                      B.status[p] # "ready"]]
           /\ UNCHANGED l_cache

\* a call of locate(ip)
LocateCall(c, ip, minutePassed) ==
  /\ l_calls[c].pc = "idle"
  /\ Len(l_requests) < MaxRequests
  /\ LocateFrom(c, ip, Locator, minutePassed, 0)

\* makeRequest of call c resolved and this.currentProvider.parser returned:
\* the result is cached and returned
LocateOk(c) ==
  /\ l_calls[c].pc = "waiting"
  /\ l_cache' = l_cache \cup {l_calls[c].ip}
  /\ l_calls' = [l_calls EXCEPT ![c] =
                   [@ EXCEPT !.pc = "returned", !.result = "located",
                             !.used = l_current, !.usedFor = l_calls[c].provider]]
  /\ UNCHANGED <<l_status, l_counter, l_current, l_requests>>

\* the catch block of locate for an error that is not a rate limit: an
\* object with the error message and country null is returned
LocateFailed(c) ==
  /\ l_calls[c].pc = "waiting"
  /\ l_calls' = [l_calls EXCEPT ![c] = [@ EXCEPT !.pc = "returned", !.result = "error"]]
  /\ UNCHANGED <<l_status, l_counter, l_current, l_cache, l_requests>>

\* the catch block of locate for status 429: the current provider is marked
\* limited, the next one is taken, and locate(ip) is called again (the
\* error object caught is always a new one, without `retried`)
LocateRateLimited(c, minutePassed) ==
  /\ l_calls[c].pc = "waiting"
  /\ Len(l_requests) < MaxRequests
  /\ LET limited == [Locator EXCEPT !.status[l_current] = "limited"]
     IN  LocateFrom(c, l_calls[c].ip, switchToNextProvider(limited), minutePassed,
                    l_current)

(***************************************************************************)
(* The sync run: main and fetchAndMergeAllNodes                            *)
(***************************************************************************)
\* previousNodeCount = null, and no finalNodesCount on disk
NoCount == -1
\* the exit code of a process that has not exited
Running == -1

\* the identifier genTime that main reads is never declared (the duration of
\* the grouping stage is held by groupTime): reading it throws ReferenceError
genTimeDeclared == FALSE

(***************************************************************************)
(* Base64Parser and PlainTextParser on the same URI list                   *)
(***************************************************************************)

MaxUris == 2

\* a line of the list is scheme://userinfo@server[:port]; the userinfo is a
\* sequence of characters, "%40" being the percent-encoded '@'; port 0 is a
\* URI without a port
UriSchemes == {"trojan", "ss", "vless", "http"}
UserInfos == {<<"a">>, <<"a", "%40">>}
UriPorts == {0, 8443}
Uris == [scheme : UriSchemes, userinfo : UserInfos, server : {"a.example"},
         port : UriPorts]
UriLists == UNION {[1..n -> Uris] : n \in 0..MaxUris}

\* the base64 text of a list of lines, and Buffer.from(str, 'base64')
\* .toString('utf8') followed by the split into lines
EncodeBase64(lines) == [base64 |-> lines]
decodeBase64(raw) == raw.base64

decodeURIComponent(text) ==
  [i \in 1..Len(text) |->
     CASE text[i] = "%40" -> "@"
       [] text[i] = "%2F" -> "/"
       [] OTHER -> text[i]]

encodeURIComponent(text) ==
  [i \in 1..Len(text) |->
     CASE text[i] = "@" -> "%40"
       [] text[i] = "/" -> "%2F"
       [] OTHER -> text[i]]

\* url.port of new URL(line), a string, '' when the line has no port
UrlPort(line) == [isString |-> TRUE, number |-> line.port]

\* `url.port || fallback`: the empty string is falsy
PortOr(port, fallback) == IF port.number = 0 THEN fallback ELSE port

\* parseInt of a port string
PortInt(port) == [isString |-> FALSE, number |-> port.number]

NoNode == [type |-> "null"]

\* Base64Parser.parseTrojan: the password part is cut from index 8 of the
\* line, the second '/' of 'trojan://', up to the first '@'
Base64ParseTrojan(line) ==
  LET passwordPart == <<"/">> \o line.userinfo
      encodedPassword == encodeURIComponent(decodeURIComponent(passwordPart))
      username == encodedPassword   \* url.username of the sanitized line
  IN [type |-> "trojan", server |-> line.server,
      port |-> PortOr(UrlPort(line), [isString |-> FALSE, number |-> 443]),
      credentials |-> decodeURIComponent(username)]

\* Base64Parser.parseNode
Base64ParseNode(line) ==
  CASE line.scheme = "trojan" -> Base64ParseTrojan(line)
    [] line.scheme = "ss" ->
         [type |-> "ss", server |-> line.server, port |-> UrlPort(line),
          credentials |-> line.userinfo]
    [] line.scheme = "vless" ->
         [type |-> "vless", server |-> line.server,
          port |-> PortOr(UrlPort(line), [isString |-> FALSE, number |-> 443]),
          credentials |-> line.userinfo]
    [] OTHER -> NoNode

\* PlainTextParser.parseLine
PlainParseLine(line) ==
  CASE line.scheme = "trojan" ->
         [type |-> "trojan", server |-> line.server,
          port |-> PortInt(PortOr(UrlPort(line), [isString |-> TRUE, number |-> 443])),
          credentials |-> line.userinfo]
    [] line.scheme = "ss" ->
         [type |-> "ss", server |-> line.server, port |-> PortInt(UrlPort(line)),
          credentials |-> line.userinfo]
    [] line.scheme = "http" ->
         [type |-> "http", server |-> line.server,
          port |-> PortInt(PortOr(UrlPort(line), [isString |-> TRUE, number |-> 80])),
          credentials |-> line.userinfo]
    [] OTHER -> NoNode

\* lines.map(parse).filter(node => node)
RECURSIVE KeepNodes(_)
KeepNodes(nodes) ==
  IF nodes = <<>> THEN <<>>
  ELSE IF Head(nodes) = NoNode THEN KeepNodes(Tail(nodes))
  ELSE <<Head(nodes)>> \o KeepNodes(Tail(nodes))

Base64ParserParse(raw) ==
  LET lines == decodeBase64(raw)
  IN KeepNodes([i \in 1..Len(lines) |-> Base64ParseNode(lines[i])])

PlainTextParserParse(lines) ==
  KeepNodes([i \in 1..Len(lines) |-> PlainParseLine(lines[i])])

EnvelopeIdle ==
  /\ e_list = <<>>
  /\ e_plain = <<>>
  /\ e_base64 = <<>>
  /\ e_done = {"idle"}

InitEnvelope ==
  /\ e_list \in UriLists
  /\ e_plain = <<>>
  /\ e_base64 = <<>>
  /\ e_done = {}

\* PlainTextParser.parse of the list
ParsePlain ==
  /\ e_done \subseteq {"base64"}
  /\ e_plain' = PlainTextParserParse(e_list)
  /\ e_done' = e_done \cup {"plain"}
  /\ UNCHANGED <<e_list, e_base64>>

\* Base64Parser.parse of the base64 text of the list
ParseBase64 ==
  /\ e_done \subseteq {"plain"}
  /\ e_base64' = Base64ParserParse(EncodeBase64(e_list))
  /\ e_done' = e_done \cup {"base64"}
  /\ UNCHANGED <<e_list, e_plain>>

\* SubscriptionParser.parseLine: the value of parsers.plain.parseLine is
\* taken for an array, and a node object has no length; normalize(nodes)[0]
\* is the node for an array with a node
IsArray(value) == value.type = "array"
parseLine(line) ==
  LET nodes == PlainParseLine(line)
  IN IF nodes # NoNode /\ IsArray(nodes) /\ Len(nodes.items) > 0
     THEN nodes.items[1]
     ELSE NoNode

\* the content of a single-node source of the configuration: a URI of the
\* type of the source that PlainTextParser decodes
SingleContents == {u \in Uris : u.scheme \in {"trojan", "ss"}}

\* a subscription of the configuration: disabled, or enabled with a url, or
\* enabled with type 'base64' and inline content, or enabled with type vmess,
\* ss, ssr or trojan and one URI as content
SubKinds == {"disabled", "url", "base64", "single"}

\* what processing an enabled subscription can end with
Outcomes(kind) ==
  CASE kind = "url" -> {"fetch-error", "no-nodes", "nodes"}
    [] kind = "base64" -> {"parse-error", "no-nodes", "nodes"}
    [] kind = "single" ->
         {IF parseLine(u) = NoNode THEN "no-nodes" ELSE "nodes" : u \in SingleContents}
    [] OTHER -> {"skipped"}

\* the kind of the node of subscription i
SubKind(i) ==
  CASE i % 4 = 1 -> "hk"
    [] i % 4 = 2 -> "nf"
    [] i % 4 = 3 -> "json"
    [] OTHER -> "cn"

\* the nodes parsed from subscription i: subscriptions 1 and 3 advertise the
\* same endpoint
SubNodes(i) ==
  << MakeNode(i, IF i % 2 = 1 THEN "a.example" ELSE "b.example", "ss", SubKind(i)) >>

RunIdle ==
  /\ r_pc = "idle"
  /\ r_run = 0
  /\ r_subs = <<>>
  /\ r_dedupOn = TRUE
  /\ r_idx = 1
  /\ r_outcome = <<>>
  /\ r_allNodes = <<>>
  /\ r_counts = [success |-> 0, failed |-> 0]
  /\ r_dedupInput = <<>>
  /\ r_rawNodes = <<>>
  /\ r_finalNodes = <<>>
  /\ r_prevCount = NoCount
  /\ r_statusFile = NoCount
  /\ r_events = <<>>
  /\ r_stagesDone = FALSE
  /\ r_exit = Running
  /\ r_lastFinal = NoCount

\* the first process, started on a configuration file with a list of
\* subscriptions and without a sync_status.json
InitRun ==
  /\ r_pc = "start"
  /\ r_run = 1
  /\ \E n \in 1..MaxSubs : r_subs \in [1..n -> SubKinds]
  /\ r_dedupOn \in BOOLEAN
  /\ r_idx = 1
  /\ r_outcome = [i \in 1..Len(r_subs) |-> "pending"]
  /\ r_allNodes = <<>>
  /\ r_counts = [success |-> 0, failed |-> 0]
  /\ r_dedupInput = <<>>
  /\ r_rawNodes = <<>>
  /\ r_finalNodes = <<>>
  /\ r_prevCount = NoCount
  /\ r_statusFile = NoCount
  /\ r_events = <<>>
  /\ r_stagesDone = FALSE
  /\ r_exit = Running
  /\ r_lastFinal = NoCount

\* an event on the event emitter; `by` is the function that emitted it
Event(by, type, nodeCount, previousNodeCount) ==
  [by |-> by, type |-> type, nodeCount |-> nodeCount,
   previousNodeCount |-> previousNodeCount]

\* the catch block of main: emit SYSTEM_ERROR and process.exit(1)
MainCatch ==
  /\ r_events' = Append(r_events, Event("main", "system:error", NoCount, NoCount))
  /\ r_exit' = 1
  /\ r_pc' = "exited"

\* main up to the call of fetchAndMergeAllNodes: read the last sync status,
\* load the configuration, create the directories and the converter
MainStart(env) ==
  /\ r_pc = "start"
  /\ r_prevCount' = r_statusFile
  /\ CASE env = "no-config" ->
            \* loadConfig() returned false: main returns
            /\ r_pc' = "exited"
            /\ r_exit' = 0
            /\ UNCHANGED <<r_events, r_subs>>
       [] env = "io-error" ->
            \* ensureDirectoryExists throws
            /\ MainCatch
            /\ UNCHANGED r_subs
       [] OTHER ->
            /\ r_pc' = "fetch"
            \* no enabled subscription: a test subscription is appended
            /\ r_subs' = IF \A i \in 1..Len(r_subs) : r_subs[i] = "disabled"
                         THEN Append(r_subs, "url") ELSE r_subs
            /\ UNCHANGED <<r_events, r_exit>>
  /\ r_outcome' = [i \in 1..Len(r_subs') |-> "pending"]
  /\ UNCHANGED <<r_run, r_dedupOn, r_idx, r_allNodes, r_counts, r_dedupInput,
                 r_rawNodes, r_finalNodes, r_statusFile, r_stagesDone, r_lastFinal>>

\* a loop that gives up at the first failing subscription
AfterFailureAbort(i, n) == n + 1

\* where the loop of fetchAndMergeAllNodes goes on after a subscription that
\* failed: `continue` in the fetch catch block, and the end of the loop body
\* after the other catch blocks
AfterFailure(i, n) == i + 1

\* one iteration of the for loop of fetchAndMergeAllNodes
ProcessSubscription(outcome) ==
  /\ r_pc = "fetch"
  /\ r_idx <= Len(r_subs)
  /\ outcome \in Outcomes(r_subs[r_idx])
  /\ r_outcome' = [r_outcome EXCEPT ![r_idx] = outcome]
  /\ CASE outcome = "skipped" ->
            /\ r_idx' = r_idx + 1
            /\ UNCHANGED <<r_allNodes, r_counts>>
       [] outcome = "nodes" ->
            /\ r_allNodes' = r_allNodes \o SubNodes(r_idx)
            /\ r_counts' = [r_counts EXCEPT !.success = @ + 1]
            /\ r_idx' = r_idx + 1
       [] OTHER ->
            /\ r_counts' = [r_counts EXCEPT !.failed = @ + 1]
            /\ r_idx' = AfterFailure(r_idx, Len(r_subs))
            /\ UNCHANGED r_allNodes
  /\ UNCHANGED <<r_pc, r_run, r_subs, r_dedupOn, r_dedupInput, r_rawNodes,
                 r_finalNodes, r_prevCount, r_statusFile, r_events, r_stagesDone,
                 r_exit, r_lastFinal>>

\* fetchAndMergeAllNodes after the loop: deduplication, analysis and renaming,
\* backup nodes; then main stores the result as rawNodes
FinishMerge(env) ==
  /\ r_pc = "fetch"
  /\ r_idx > Len(r_subs)
  /\ LET dedupCalled == r_dedupOn /\ Len(r_allNodes) > 0
         merged == IF dedupCalled THEN deduplicate(r_allNodes, TRUE) ELSE r_allNodes
     IN  /\ r_dedupInput' = IF dedupCalled THEN <<r_allNodes>> ELSE <<>>
         /\ IF env = "analysis-error" /\ Len(merged) > 0
            THEN \* processNodes / renameNodes throws: caught by main
                 /\ MainCatch
                 /\ UNCHANGED r_rawNodes
            ELSE /\ r_rawNodes' = AnalyzeAndRename(merged)
                 /\ r_pc' = "test"
                 /\ UNCHANGED <<r_events, r_exit>>
  /\ UNCHANGED <<r_run, r_subs, r_dedupOn, r_idx, r_outcome, r_allNodes, r_counts,
                 r_finalNodes, r_prevCount, r_statusFile, r_stagesDone, r_lastFinal>>

\* the probing stage and the filters of main under the TESTING_CONFIG the
\* script declares: the nodes in `up` connect, the others do not
TestAndFilter(up) ==
  /\ r_pc = "test"
  /\ up \subseteq {r_rawNodes[i].id : i \in 1..Len(r_rawNodes)}
  /\ LET outcome(node) ==
           [threw |-> FALSE, status |-> node.id \in up,
            elapsed |-> IF node.id \in up THEN highLatencyFloor - 1 ELSE 0,
            located |-> NoLocation]
         testResults ==
           [i \in 1..Len(r_rawNodes) |->
              runTest(r_rawNodes[i], outcome(r_rawNodes[i]),
                      TESTING_CONFIG.verify_location)]
     IN  r_finalNodes' = FilterChina(PostProbe(r_rawNodes, testResults,
                                               TESTING_CONFIG, TRUE))
  /\ r_pc' = "emit"
  /\ UNCHANGED <<r_run, r_subs, r_dedupOn, r_idx, r_outcome, r_allNodes, r_counts,
                 r_dedupInput, r_rawNodes, r_prevCount, r_statusFile, r_events,
                 r_stagesDone, r_exit, r_lastFinal>>

\* generateGroupedNodeFiles(finalNodes, CONFIG.options)
GenerateFiles(env) ==
  /\ r_pc = "emit"
  /\ r_events' =
       IF Len(r_finalNodes) = 0 THEN r_events
       ELSE IF env = "io-error"
            THEN Append(r_events,
                        Event("generateGroupedNodeFiles", "system:error",
                              NoCount, NoCount))
            ELSE Append(r_events,
                        Event("generateGroupedNodeFiles", "conversion:complete",
                              Len(r_finalNodes), NoCount))
  /\ r_pc' = "status"
  /\ UNCHANGED <<r_run, r_subs, r_dedupOn, r_idx, r_outcome, r_allNodes, r_counts,
                 r_dedupInput, r_rawNodes, r_finalNodes, r_prevCount, r_statusFile,
                 r_stagesDone, r_exit, r_lastFinal>>

\* the try block that writes sync_status.json: building statusData reads
\* genTime, and the ReferenceError is caught and logged
SaveStatus ==
  /\ r_pc = "status"
  /\ r_statusFile' = IF genTimeDeclared THEN Len(r_finalNodes) ELSE r_statusFile
  /\ r_pc' = "notify"
  /\ UNCHANGED <<r_run, r_subs, r_dedupOn, r_idx, r_outcome, r_allNodes, r_counts,
                 r_dedupInput, r_rawNodes, r_finalNodes, r_prevCount, r_events,
                 r_stagesDone, r_exit, r_lastFinal>>

\* the completion event of main
Notify ==
  /\ r_pc = "notify"
  /\ r_events' = Append(r_events,
                        Event("main", "conversion:complete", Len(r_finalNodes),
                              r_prevCount))
  /\ r_pc' = "proxies"
  /\ UNCHANGED <<r_run, r_subs, r_dedupOn, r_idx, r_outcome, r_allNodes, r_counts,
                 r_dedupInput, r_rawNodes, r_finalNodes, r_prevCount, r_statusFile,
                 r_stagesDone, r_exit, r_lastFinal>>

\* the harvest of the egress proxies and saveChinaProxies
SaveProxies ==
  /\ r_pc = "proxies"
  /\ r_stagesDone' = TRUE
  /\ r_pc' = "final"
  /\ UNCHANGED <<r_run, r_subs, r_dedupOn, r_idx, r_outcome, r_allNodes, r_counts,
                 r_dedupInput, r_rawNodes, r_finalNodes, r_prevCount, r_statusFile,
                 r_events, r_exit, r_lastFinal>>

\* the closing log line of main, which reads genTime, and the end of main
FinalLog ==
  /\ r_pc = "final"
  /\ IF genTimeDeclared
     THEN /\ r_exit' = 0
          /\ r_pc' = "exited"
          /\ UNCHANGED r_events
     ELSE MainCatch
  /\ UNCHANGED <<r_run, r_subs, r_dedupOn, r_idx, r_outcome, r_allNodes, r_counts,
                 r_dedupInput, r_rawNodes, r_finalNodes, r_prevCount, r_statusFile,
                 r_stagesDone, r_lastFinal>>

\* the next scheduled run: a new process on the same files
NextRun ==
  /\ r_pc = "exited"
  /\ r_run < MaxRuns
  /\ r_run' = r_run + 1
  /\ r_lastFinal' = IF r_stagesDone THEN Len(r_finalNodes) ELSE NoCount
  /\ r_pc' = "start"
  /\ r_idx' = 1
  /\ r_outcome' = [i \in 1..Len(r_subs) |-> "pending"]
  /\ r_allNodes' = <<>>
  /\ r_counts' = [success |-> 0, failed |-> 0]
  /\ r_dedupInput' = <<>>
  /\ r_rawNodes' = <<>>
  /\ r_finalNodes' = <<>>
  /\ r_prevCount' = NoCount
  /\ r_events' = <<>>
  /\ r_stagesDone' = FALSE
  /\ r_exit' = Running
  /\ UNCHANGED <<r_subs, r_dedupOn, r_statusFile>>

(***************************************************************************)
(* The worker: the health check behind GET /api/health                     *)
(***************************************************************************)

MaxChecks == 4
MaxHealthRequests == 2

\* the checks utils/health/index.js adds to the global healthCheck
DefaultChecks == <<"system", "memory">>

\* what a check of each kind can do when it is run: the system check returns
\* UP, the memory check UP or DEGRADED, a subscription check UP or DOWN, or
\* it is still waiting for its HEAD request when the timeout of check() fires
CheckOutcomes(kind) ==
  CASE kind = "system" -> {"up"}
    [] kind = "memory" -> {"up", "degraded"}
    [] OTHER -> {"up", "down", "timeout"}

\* the outcomes the checks of a list can have
OutcomesOf(checks) ==
  {o \in [1..Len(checks) -> {"up", "degraded", "down", "timeout"}] :
     \A i \in 1..Len(checks) : o[i] \in CheckOutcomes(checks[i])}

\* the status check() pushes to `results` for one check: the status the check
\* returned, DOWN when the race rejected
ResultStatus(outcome) == IF outcome = "timeout" THEN "down" ELSE outcome

\* overallStatus after the loop of check() has handled the first n outcomes
RECURSIVE OverallStatus(_, _)
OverallStatus(outcomes, n) ==
  IF n = 0 THEN "up"
  ELSE LET before == OverallStatus(outcomes, n - 1)
           status == ResultStatus(outcomes[n])
       IN IF status = "down" THEN "down"
          ELSE IF status = "degraded" /\ before # "down" THEN "degraded"
          ELSE before

\* handleHealth: the status of the response built from a health result
handleHealth(overall) == IF overall = "down" THEN 503 ELSE 200

\* the routes the worker registers with router.get that have no parameter
RouteHandler(path) ==
  CASE path = "/api/health" -> "handleHealth"
    [] path = "/api/status" -> "handleStatus"
    [] OTHER -> "none"

Paths == {"/api/health", "/api/status", "/api/unknown"}

\* the response of a route handler
HandlerResponse(handler, overall) ==
  [isResponse |-> TRUE,
   status |-> IF handler = "handleHealth" THEN handleHealth(overall) ELSE 200]

\* withMetrics takes a handler and returns the wrapped handler; called as
\* middleware(request, next) it takes the request for the handler and returns
\* the wrapping function, which nothing calls
withMetrics == [isResponse |-> FALSE, status |-> 0]

Reverse(seq) == [i \in 1..Len(seq) |-> seq[Len(seq) + 1 - i]]

\* Router.handle: what `await currentHandler(request)` evaluates to
RouterValue(path, middlewares, overall) ==
  IF RouteHandler(path) = "none" THEN [isResponse |-> TRUE, status |-> 404]
  ELSE IF middlewares = <<>> THEN HandlerResponse(RouteHandler(path), overall)
  ELSE withMetrics

\* event.respondWith: the worker answers with the response the promise
\* resolved to, and with an error page when it is no Response
RespondWith(value) == IF value.isResponse THEN value.status ELSE 500

HealthIdle ==
  /\ h_checks = <<>>
  /\ h_middlewares = <<>>
  /\ h_results = <<>>
  /\ h_status = ""
  /\ h_answer = 0
  /\ h_path = ""
  /\ h_outcomes = <<>>
  /\ h_requests = 0


\* the worker after its module was loaded: router.use(withMetrics)
InitHealth ==
  /\ h_checks = DefaultChecks
  /\ h_middlewares = <<"withMetrics">>
  /\ h_results = <<>>
  /\ h_status = ""
  /\ h_answer = 0
  /\ h_path = ""
  /\ h_outcomes = <<>>
  /\ h_requests = 0

\* addSubscriptionCheck(url)
AddSubscriptionCheck ==
  /\ Len(h_checks) < MaxChecks
  /\ h_checks' = Append(h_checks, "subscription")
  /\ UNCHANGED <<h_middlewares, h_results, h_status, h_answer, h_path, h_outcomes,
               h_requests>>

\* healthCheck.check() called by itself (the usage documented for the module)
RunCheck(outcomes) ==
  /\ h_results' = [i \in 1..Len(outcomes) |-> ResultStatus(outcomes[i])]
  /\ h_status' = OverallStatus(outcomes, Len(outcomes))
  /\ UNCHANGED <<h_checks, h_middlewares, h_answer, h_path, h_outcomes, h_requests>>

\* a GET request the fetch listener hands to router.handle; the checks are
\* run only when the handler is called
Request(path, outcomes) ==
  /\ h_requests < MaxHealthRequests
  /\ h_requests' = h_requests + 1
  /\ h_path' = path
  /\ h_outcomes' = outcomes
  /\ h_middlewares' = Reverse(h_middlewares)
  /\ LET value == RouterValue(path, h_middlewares',
                              OverallStatus(outcomes, Len(outcomes)))
         called == value.isResponse /\ RouteHandler(path) = "handleHealth"
     IN /\ h_answer' = RespondWith(value)
        /\ h_results' = IF called
                        THEN [i \in 1..Len(outcomes) |-> ResultStatus(outcomes[i])]
                        ELSE h_results
        /\ h_status' = IF called THEN OverallStatus(outcomes, Len(outcomes))
                       ELSE h_status
  /\ UNCHANGED h_checks

(***************************************************************************)
(* NodeAnalyzer: the country of a display name                             *)
(***************************************************************************)

MaxNameLen == 3

\* a display name is a sequence of characters; each flag is one character
FlagUS == "flag-US"
FlagHK == "flag-HK"
NameChars == {"U", "S", "A", "u", "s", " ", "-", FlagUS, FlagHK}
Letters == {"U", "S", "A", "u", "s"}

Names == UNION {[1..n -> NameChars] : n \in 0..MaxNameLen}

\* Object.keys(countryMap) in insertion order, the keys that can be written
\* with NameChars: the flag of the United States, 'USA', the flag of Hong Kong
countryMapKeys == <<<<FlagUS>>, <<"U", "S", "A">>, <<FlagHK>>>>

\* countryMap[key], undefined (written "") for what is no key of the map
countryMap(key) ==
  CASE key = <<FlagUS>> -> "US"
    [] key = <<"U", "S", "A">> -> "US"
    [] key = <<FlagHK>> -> "HK"
    [] OTHER -> ""

\* the 'i' flag of the regular expression: characters compared by their
\* lower case
LowerCase(ch) ==
  CASE ch = "U" -> "u"
    [] ch = "S" -> "s"
    [] ch = "A" -> "a"
    [] OTHER -> ch

\* the pattern `key` matches the name at position i
MatchesAt(name, i, key) ==
  /\ i + Len(key) - 1 <= Len(name)
  /\ \A j \in 1..Len(key) : LowerCase(name[i + j - 1]) = LowerCase(key[j])

\* buildCountryRegex: name.match(countryRegex)[1], the text of the name that
\* the alternation (key1|key2|...) matches at the leftmost position where a
\* key matches, the first such key of the alternation; <<>> for no match
countryMatch(name) ==
  LET hits == {i \in 1..Len(name) :
                 \E k \in DOMAIN countryMapKeys : MatchesAt(name, i, countryMapKeys[k])}
  IN IF hits = {} THEN <<>>
     ELSE LET i == CHOOSE h \in hits : \A g \in hits : h <= g
              k == CHOOSE a \in DOMAIN countryMapKeys :
                     /\ MatchesAt(name, i, countryMapKeys[a])
                     /\ \A b \in DOMAIN countryMapKeys :
                          MatchesAt(name, i, countryMapKeys[b]) => a <= b
          IN SubSeq(name, i, i + Len(countryMapKeys[k]) - 1)

\* the country part of analyze(node): countryCode is countryMap[countryKey]
\* of the matched text, country follows the switch on the code and is the
\* matched text itself by default
analyzeCountry(name) ==
  LET countryKey == countryMatch(name)
      code == countryMap(countryKey)
  IN IF countryKey = <<>> THEN [matched |-> FALSE, countryCode |-> "", country |-> <<>>]
     ELSE [matched |-> TRUE,
           countryCode |-> code,
           country |-> CASE code = "US" -> <<"Meiguo">>
                         [] code = "HK" -> <<"Xianggang">>
                         [] OTHER -> countryKey]

ClassifyIdle ==
  /\ c_pc = "idle"
  /\ c_name = <<>>
  /\ c_result = [matched |-> FALSE, countryCode |-> "", country |-> <<>>]

InitClassify ==
  /\ c_pc = "ready"
  /\ c_name \in Names
  /\ c_result = [matched |-> FALSE, countryCode |-> "", country |-> <<>>]

\* analyzer.analyze(node) for a node with this name
Classify ==
  /\ c_pc = "ready"
  /\ c_result' = analyzeCountry(c_name)
  /\ c_pc' = "done"
  /\ UNCHANGED c_name

(***************************************************************************)
(* BarkNotifier: the listeners it registers on the event emitter           *)
(***************************************************************************)

MaxTime == 6
MaxSends == 3

\* options.minInterval || 300000, in minutes
minInterval == 5

\* the events the listeners are registered for: this.events and SYSTEM_INFO
allEvents == {"conversion:complete", "system:error", "system:info"}

\* the test of the listener: a push of this type is recorded and is younger
\* than minInterval (no recorded push is written 0; Date.now() is never 0)
WithinInterval(lastPushTime, event, now) ==
  lastPushTime[event] # 0 /\ now - lastPushTime[event] < minInterval

BarkIdle ==
  /\ b_now = 0
  /\ b_lastPushTime = <<>>
  /\ b_inFlight = {}
  /\ b_sent = <<>>

\* an enabled notifier after registerEventListeners
InitBark ==
  /\ b_now = 1
  /\ b_lastPushTime = [e \in allEvents |-> 0]
  /\ b_inFlight = {}
  /\ b_sent = <<>>

\* a minute passes
Tick ==
  /\ b_now < MaxTime
  /\ b_now' = b_now + 1
  /\ UNCHANGED <<b_lastPushTime, b_inFlight, b_sent>>

\* eventEmitter.emit(event, data): emit calls the async listener and does not
\* wait for it; the listener runs up to `await fetch(...)` in sendNotification,
\* where the request has been sent
Emit(event) ==
  /\ Len(b_sent) < MaxSends
  /\ IF WithinInterval(b_lastPushTime, event, b_now)
     THEN UNCHANGED <<b_inFlight, b_sent>>
     ELSE /\ b_sent' = Append(b_sent, [event |-> event, time |-> b_now])
          /\ b_inFlight' = b_inFlight \cup {[event |-> event, now |-> b_now]}
  /\ UNCHANGED <<b_now, b_lastPushTime>>

\* the request of a listener is answered, fails or is aborted by the
\* timeout; sendNotification catches every error, and the listener records
\* the time it read before the send
SendSettled(listener) ==
  /\ listener \in b_inFlight
  /\ b_lastPushTime' = [b_lastPushTime EXCEPT ![listener.event] = listener.now]
  /\ b_inFlight' = b_inFlight \ {listener}
  /\ UNCHANGED <<b_now, b_sent>>

ServiceIdle == HealthIdle /\ ClassifyIdle /\ EnvelopeIdle /\ BarkIdle

InitDedup ==
  /\ FetchIdle
  /\ ParseIdle
  /\ RunIdle
  /\ ProbeIdle
  /\ PostIdle
  /\ LocateIdle
  /\ ServiceIdle
  /\ d_pc = "ready"
  /\ \E n \in 0..MaxNodes : d_in \in DedupInputs(n)
  /\ d_prefer \in BOOLEAN
  /\ d_out = <<>>
  /\ d_again = <<>>

Deduplicate ==
  /\ d_pc = "ready"
  /\ d_out' = deduplicate(d_in, d_prefer)
  /\ d_pc' = "done"
  /\ UNCHANGED <<d_in, d_prefer, d_again>>
  /\ UNCHANGED <<fetchVars, parseVars, runVars, probeVars, postVars, locateVars, serviceVars>>

\* deduplicate called on the array a previous call returned
DeduplicateAgain(preferLower) ==
  /\ d_pc = "done"
  /\ d_again' = deduplicate(d_out, preferLower)
  /\ d_pc' = "again"
  /\ UNCHANGED <<d_in, d_prefer, d_out>>
  /\ UNCHANGED <<fetchVars, parseVars, runVars, probeVars, postVars, locateVars, serviceVars>>

NextDedup ==
  \/ Deduplicate
  \/ \E preferLower \in BOOLEAN : DeduplicateAgain(preferLower)

SpecDedup == InitDedup /\ [][NextDedup]_vars

(***************************************************************************)
(* Specifications                                                          *)
(***************************************************************************)
NextFetch ==
  \/ (\E h \in CallHeaders : FetchCall(h)) /\ UNCHANGED <<dedupVars, parseVars, runVars, probeVars, postVars, locateVars, serviceVars>>
  \/ AttemptOk /\ UNCHANGED <<dedupVars, parseVars, runVars, probeVars, postVars, locateVars, serviceVars>>
  \/ (\E e \in AttemptErrors : AttemptFail(e)) /\ UNCHANGED <<dedupVars, parseVars, runVars, probeVars, postVars, locateVars, serviceVars>>
  \/ FetchThrow /\ UNCHANGED <<dedupVars, parseVars, runVars, probeVars, postVars, locateVars, serviceVars>>

\* a fetcher alone: no deduplication, parse or sync run in progress
InitFetch == InitFetcher /\ DedupIdle /\ ParseIdle /\ RunIdle /\ ProbeIdle /\ PostIdle /\ LocateIdle /\ ServiceIdle

SpecFetch == InitFetch /\ [][NextFetch]_vars

NextParse ==
  \/ ParseReturn /\ UNCHANGED <<dedupVars, fetchVars, runVars, probeVars, postVars, locateVars, serviceVars>>
  \/ ParseThrow /\ UNCHANGED <<dedupVars, fetchVars, runVars, probeVars, postVars, locateVars, serviceVars>>

\* a parser alone
InitParser == InitParse /\ DedupIdle /\ FetchIdle /\ RunIdle /\ ProbeIdle /\ PostIdle /\ LocateIdle /\ ServiceIdle

SpecParse == InitParser /\ [][NextParse]_vars

NodeIds(nodes) == {nodes[i].id : i \in 1..Len(nodes)}

NextSync ==
  \/ (\E env \in {"ok", "no-config", "io-error"} : MainStart(env))
       /\ UNCHANGED <<dedupVars, fetchVars, parseVars, probeVars, postVars, locateVars, serviceVars>>
  \/ (\E o \in {"skipped", "fetch-error", "parse-error", "no-nodes", "nodes"} :
        ProcessSubscription(o))
       /\ UNCHANGED <<dedupVars, fetchVars, parseVars, probeVars, postVars, locateVars, serviceVars>>
  \/ (\E env \in {"ok", "analysis-error"} : FinishMerge(env))
       /\ UNCHANGED <<dedupVars, fetchVars, parseVars, probeVars, postVars, locateVars, serviceVars>>
  \/ (\E up \in SUBSET NodeIds(r_rawNodes) : TestAndFilter(up))
       /\ UNCHANGED <<dedupVars, fetchVars, parseVars, probeVars, postVars, locateVars, serviceVars>>
  \/ (\E env \in {"ok", "io-error"} : GenerateFiles(env))
       /\ UNCHANGED <<dedupVars, fetchVars, parseVars, probeVars, postVars, locateVars, serviceVars>>
  \/ SaveStatus /\ UNCHANGED <<dedupVars, fetchVars, parseVars, probeVars, postVars, locateVars, serviceVars>>
  \/ Notify /\ UNCHANGED <<dedupVars, fetchVars, parseVars, probeVars, postVars, locateVars, serviceVars>>
  \/ SaveProxies /\ UNCHANGED <<dedupVars, fetchVars, parseVars, probeVars, postVars, locateVars, serviceVars>>
  \/ FinalLog /\ UNCHANGED <<dedupVars, fetchVars, parseVars, probeVars, postVars, locateVars, serviceVars>>
  \/ NextRun /\ UNCHANGED <<dedupVars, fetchVars, parseVars, probeVars, postVars, locateVars, serviceVars>>

\* the sync script alone
InitSync == InitRun /\ DedupIdle /\ FetchIdle /\ ParseIdle /\ ProbeIdle /\ PostIdle /\ LocateIdle /\ ServiceIdle

SpecRun == InitSync /\ [][NextSync]_vars

NextProbe ==
  \/ TestNodesStart /\ UNCHANGED <<dedupVars, fetchVars, parseVars, runVars, postVars, locateVars, serviceVars>>
  \/ (\E w \in DOMAIN t_current, o \in ProbeOutcomes : WorkerStep(w, o))
       /\ UNCHANGED <<dedupVars, fetchVars, parseVars, runVars, postVars, locateVars, serviceVars>>
  \/ TestNodesReturn /\ UNCHANGED <<dedupVars, fetchVars, parseVars, runVars, postVars, locateVars, serviceVars>>

\* a prober alone
InitTester == InitProbe /\ DedupIdle /\ FetchIdle /\ ParseIdle /\ RunIdle /\ PostIdle /\ LocateIdle /\ ServiceIdle

SpecProbe == InitTester /\ [][NextProbe]_vars

NextPost ==
  \/ RenameStep /\ UNCHANGED <<dedupVars, fetchVars, parseVars, runVars, probeVars, locateVars, serviceVars>>
  \/ (\E order \in Orders(Len(m_rawNodes)),
         outcomes \in [1..Len(m_rawNodes) -> OutcomesFor(m_cfg)],
         testerThrows \in BOOLEAN : TestStep(outcomes, order, testerThrows))
       /\ UNCHANGED <<dedupVars, fetchVars, parseVars, runVars, probeVars, locateVars, serviceVars>>
  \/ ApplyResults /\ UNCHANGED <<dedupVars, fetchVars, parseVars, runVars, probeVars, locateVars, serviceVars>>
  \/ RemoveChinaNodes /\ UNCHANGED <<dedupVars, fetchVars, parseVars, runVars, probeVars, locateVars, serviceVars>>
  \/ (\E env \in {"ok", "io-error"} : GenerateGroups(env))
       /\ UNCHANGED <<dedupVars, fetchVars, parseVars, runVars, probeVars, locateVars, serviceVars>>
  \/ Harvest /\ UNCHANGED <<dedupVars, fetchVars, parseVars, runVars, probeVars, locateVars, serviceVars>>

\* the second half of main alone
InitPostProbe == InitPost /\ DedupIdle /\ FetchIdle /\ ParseIdle /\ RunIdle /\ ProbeIdle /\ LocateIdle /\ ServiceIdle

SpecPost == InitPostProbe /\ [][NextPost]_vars

NextLocate ==
  \/ (\E c \in DOMAIN l_calls, ip \in Addresses, minutePassed \in BOOLEAN :
        LocateCall(c, ip, minutePassed))
       /\ UNCHANGED <<dedupVars, fetchVars, parseVars, runVars, probeVars, postVars, serviceVars>>
  \/ (\E c \in DOMAIN l_calls : LocateOk(c))
       /\ UNCHANGED <<dedupVars, fetchVars, parseVars, runVars, probeVars, postVars, serviceVars>>
  \/ (\E c \in DOMAIN l_calls : LocateFailed(c))
       /\ UNCHANGED <<dedupVars, fetchVars, parseVars, runVars, probeVars, postVars, serviceVars>>
  \/ (\E c \in DOMAIN l_calls, minutePassed \in BOOLEAN : LocateRateLimited(c, minutePassed))
       /\ UNCHANGED <<dedupVars, fetchVars, parseVars, runVars, probeVars, postVars, serviceVars>>

\* a locator alone
InitLocator ==
  InitLocate /\ DedupIdle /\ FetchIdle /\ ParseIdle /\ RunIdle /\ ProbeIdle /\ PostIdle
    /\ ServiceIdle

SpecLocate == InitLocator /\ [][NextLocate]_vars

\* the tuple of the components above the worker
coreVars == <<dedupVars, fetchVars, parseVars, runVars, probeVars, postVars,
              locateVars>>

CoreIdle ==
  DedupIdle /\ FetchIdle /\ ParseIdle /\ RunIdle /\ ProbeIdle /\ PostIdle /\ LocateIdle

NextHealth ==
  \/ AddSubscriptionCheck /\ UNCHANGED <<coreVars, classifyVars, envelopeVars, barkVars>>
  \/ (\E outcomes \in OutcomesOf(h_checks) : RunCheck(outcomes))
       /\ UNCHANGED <<coreVars, classifyVars, envelopeVars, barkVars>>
  \/ (\E path \in Paths, outcomes \in OutcomesOf(h_checks) : Request(path, outcomes))
       /\ UNCHANGED <<coreVars, classifyVars, envelopeVars, barkVars>>

\* the worker alone
InitWorker == InitHealth /\ CoreIdle /\ ClassifyIdle /\ EnvelopeIdle /\ BarkIdle

SpecHealth == InitWorker /\ [][NextHealth]_vars

NextClassify == Classify /\ UNCHANGED <<coreVars, healthVars, envelopeVars, barkVars>>

\* the analyzer alone
InitAnalyzer == InitClassify /\ CoreIdle /\ HealthIdle /\ EnvelopeIdle /\ BarkIdle

SpecClassify == InitAnalyzer /\ [][NextClassify]_vars

NextEnvelope ==
  \/ ParsePlain /\ UNCHANGED <<coreVars, healthVars, classifyVars, barkVars>>
  \/ ParseBase64 /\ UNCHANGED <<coreVars, healthVars, classifyVars, barkVars>>

\* the two parsers alone
InitParsers == InitEnvelope /\ CoreIdle /\ HealthIdle /\ ClassifyIdle /\ BarkIdle

SpecEnvelope == InitParsers /\ [][NextEnvelope]_vars

NextBark ==
  \/ Tick /\ UNCHANGED <<coreVars, healthVars, classifyVars, envelopeVars>>
  \/ (\E event \in allEvents : Emit(event))
       /\ UNCHANGED <<coreVars, healthVars, classifyVars, envelopeVars>>
  \/ (\E listener \in b_inFlight : SendSettled(listener))
       /\ UNCHANGED <<coreVars, healthVars, classifyVars, envelopeVars>>

\* the notifier alone
InitNotifier == InitBark /\ CoreIdle /\ HealthIdle /\ ClassifyIdle /\ EnvelopeIdle

SpecBark == InitNotifier /\ [][NextBark]_vars

(***************************************************************************)
(* Properties of the sync run                                              *)
(***************************************************************************)
Enabled(i) == r_subs[i] # "disabled"

\* the nodes of the subscriptions 1..k that succeeded, in declaration order
RECURSIVE NodesOfSucceeded(_)
NodesOfSucceeded(k) ==
  IF k = 0 THEN <<>>
  ELSE NodesOfSucceeded(k - 1) \o (IF r_outcome[k] = "nodes" THEN SubNodes(k) ELSE <<>>)

LoopLeft == r_pc \in {"test", "emit", "status", "notify", "proxies", "final"}

\* C1: a subscription whose fetch or parse fails does not abort the run:
\* every enabled subscription is still processed, and the nodes of the
\* subscriptions that succeeded are what deduplication receives.
C1_FailedSubscriptionDoesNotAbort ==
  (LoopLeft \/ (r_pc = "exited" /\ r_idx > 1)) =>
    /\ \A i \in 1..Len(r_subs) : Enabled(i) => r_outcome[i] \in Outcomes(r_subs[i])
    /\ r_allNodes = NodesOfSucceeded(Len(r_subs))
    /\ (r_dedupOn /\ r_allNodes # <<>>) => r_dedupInput = <<r_allNodes>>

\* C1 witness: a subscription failed, a later one succeeded and its nodes
\* went to deduplication
C1_Witness ==
  /\ LoopLeft
  /\ \E i, j \in 1..Len(r_subs) :
       /\ i < j
       /\ r_outcome[i] \in {"fetch-error", "parse-error"}
       /\ r_outcome[j] = "nodes"
  /\ r_dedupInput = <<r_allNodes>>
  /\ Len(r_allNodes) > 0

\* C2: a run that went through every stage of the pipeline exits with code 0.
C2_CompletedRunExitsZero ==
  (r_pc = "exited" /\ r_stagesDone) => r_exit = 0

\* the completion events main emitted in this run
MainCompletionEvents ==
  {i \in 1..Len(r_events) :
     r_events[i].by = "main" /\ r_events[i].type = "conversion:complete"}

\* C3: the sync status is persisted by every run that completes, and the
\* previousNodeCount of a run's completion event equals the finalNodesCount
\* of the run immediately before it.
C3_PreviousCountIsLastFinalCount ==
  /\ (r_pc \in {"notify", "proxies", "final"} \/ (r_pc = "exited" /\ r_stagesDone)) =>
       r_statusFile = Len(r_finalNodes)
  /\ (r_run > 1 /\ r_lastFinal # NoCount) =>
       \A i \in MainCompletionEvents : r_events[i].previousNodeCount = r_lastFinal

(***************************************************************************)
(* Properties of the parser                                                *)
(***************************************************************************)
\* the protocols of the canonical node model
KnownProtocols ==
  {"vmess", "vless", "shadowsocks", "shadowsocksr", "trojan", "hysteria2",
   "http", "https", "socks5"}

\* C6: every node returned by the parser has a non-empty server, a port in
\* 1..65535 and a known protocol; a record failing this is dropped.
C6_ParsedNodesAreValid ==
  p_pc = "returned" =>
    \A i \in 1..Len(p_result) :
      /\ p_result[i].server # ""
      /\ p_result[i].port >= 1
      /\ p_result[i].port <= 65535
      /\ p_result[i].protocol \in KnownProtocols

\* the decoders other than the detected one that decode the payload
WorkingBackups(raw) == {g \in Formats \ {raw.format} : ~raw.decode[g].throws}

\* C7: if the decoder chosen by format detection fails, parse returns the
\* nodes of another decoder that succeeds, and it throws only when all
\* decoders have failed.
C7_FallbackToOtherDecoders ==
  (p_pc \in {"returned", "thrown"} /\ ~p_raw.empty /\ p_raw.decode[p_raw.format].throws) =>
    IF WorkingBackups(p_raw) = {}
    THEN p_pc = "thrown"
    ELSE /\ p_pc = "returned"
         /\ \E g \in WorkingBackups(p_raw) :
              p_result = normalize(p_raw.decode[g].records)

UAByIndex(a) == UserAgentAt(a \div f_maxRetries)

\* C5 as stated: the attempt with 0-based index a is sent with
\* userAgents[a div maxRetries].
C5_EveryAttemptUsesListUA ==
  \A a \in 0..(Len(f_sent) - 1) : f_sent[a + 1] = UAByIndex(a)

\* the User-Agent the first attempt of the call starts from
InitialUA == IF f_callUA = "" THEN UserAgentAt(0) ELSE f_callUA

\* C5 amended: attempts a >= maxRetries are sent with
\* userAgents[a div maxRetries]; the first maxRetries attempts are sent with
\* the User-Agent of the call's merged request headers (userAgents[0] only
\* when that header is empty), so a failing call uses each of
\* userAgents[1..] for exactly maxRetries consecutive attempts.
C5_UARotatesAfterInitialUA ==
  \A a \in 0..(Len(f_sent) - 1) :
    f_sent[a + 1] = IF a < f_maxRetries THEN InitialUA ELSE UAByIndex(a)

\* C5 witness: a failed call whose first attempts carried a User-Agent that
\* is not the head of the list
C5_Witness ==
  /\ f_pc = "thrown"
  /\ f_maxRetries >= 2
  /\ f_sent[1] # UserAgentAt(0)
  /\ f_sent[f_maxRetries + 1] = UserAgentAt(1)

(***************************************************************************)
(* Properties of the deduplicator                                          *)
(***************************************************************************)
\* the dedup key of the specification: the tuple (server, port, protocol)
FingerprintKey(n) == <<n.server, n.port, n.protocol>>

\* the input nodes that share the key of node n, as their set of positions
Colliding(n) == {i \in 1..Len(d_in) : FingerprintKey(d_in[i]) = FingerprintKey(n)}

CarriesLatency(n) == Truthy(n.latency)

\* C8: the output of dedup contains only nodes of its input, and no two
\* distinct output nodes share the same (server, port, protocol) key.
C8_DedupSubsetUniqueKeys ==
  d_pc = "done" =>
    /\ Range(d_out) \subseteq Range(d_in)
    /\ \A i, j \in 1..Len(d_out) :
         i # j => FingerprintKey(d_out[i]) # FingerprintKey(d_out[j])

\* C8 witness: a collision was collapsed and several keys survive
C8_Witness ==
  /\ d_pc = "done"
  /\ Len(d_out) >= 2
  /\ Len(d_out) < Len(d_in)

C10_OutputInInputOrder ==
  d_pc = "done" =>
    \A i, j \in 1..Len(d_out) : i < j => d_out[i].id < d_out[j].id

\* position of the first input node with the key of n
FirstArrival(n) == CHOOSE i \in Colliding(n) : \A k \in Colliding(n) : i <= k

\* C10 amended: the output lists the keys in the order of their first
\* appearance in the input, a survivor standing where its key first appeared;
\* the input order of the nodes is kept whenever no latency preference applies
\* (preferLower off, or no node carrying a latency).
C10_OutputInFirstArrivalOrder ==
  d_pc = "done" =>
    /\ \A i, j \in 1..Len(d_out) :
         i < j => FirstArrival(d_out[i]) < FirstArrival(d_out[j])
    /\ (~d_prefer \/ \A i \in 1..Len(d_in) : ~CarriesLatency(d_in[i])) =>
         \A i, j \in 1..Len(d_out) : i < j => d_out[i].id < d_out[j].id

\* C10 witness: a replacement put a later input node before an earlier one
C10_Witness ==
  /\ d_pc = "done"
  /\ \E i, j \in 1..Len(d_out) : i < j /\ d_out[i].id > d_out[j].id

\* C11: deduplicate is idempotent: called on the array it returned, it
\* returns that same array (same nodes, same order).
C11_DedupIdempotent ==
  d_pc = "again" => d_again = d_out

\* C11 witness: the first call dropped a node and kept at least two, and the
\* second call has returned
C11_Witness ==
  /\ d_pc = "again"
  /\ Len(d_out) >= 2
  /\ Len(d_out) < Len(d_in)
  /\ d_again = d_out


(***************************************************************************)
(* Properties of the prober                                                *)
(***************************************************************************)
\* C12: every result with status up has a recorded latency strictly below
\* highLatencyFloor, and a node whose connection succeeded after
\* highLatencyFloor ms or more is reported down.
C12_UpMeansBelowLatencyFloor ==
  \A i \in 1..Len(t_results) :
    /\ t_results[i].status = "up" =>
         /\ t_results[i].latency # NoLatency
         /\ t_results[i].latency < highLatencyFloor
    /\ (t_probes[i].status /\ t_probes[i].elapsed >= highLatencyFloor) =>
         t_results[i].status = "down"

\* C12 witness: a node that connected in exactly highLatencyFloor ms was
\* reported down, next to a node reported up
C12_Witness ==
  /\ t_pc = "returned"
  /\ \E i, j \in 1..Len(t_results) :
       /\ t_probes[i].status
       /\ t_probes[i].elapsed = highLatencyFloor
       /\ t_results[i].status = "down"
       /\ t_results[j].status = "up"

\* C13: when testNodes returns, results holds exactly one entry per input
\* node, whatever the order in which the workers finished.
C13_OneResultPerNode ==
  t_pc = "returned" =>
    /\ Len(t_results) = Len(t_nodes)
    /\ \A i \in 1..Len(t_nodes) :
         Cardinality({j \in 1..Len(t_results) : t_results[j].node = t_nodes[i]}) = 1

\* C13 witness: more nodes than workers, and the results are not in the
\* order of the input
C13_Witness ==
  /\ t_pc = "returned"
  /\ Len(t_nodes) > t_concurrency
  /\ t_concurrency >= 2
  /\ \E i, j \in 1..Len(t_results) : i < j /\ t_results[i].node.id > t_results[j].node.id


(***************************************************************************)
(* Properties of main from the probing on                                  *)
(***************************************************************************)
\* the block that handles the test results has run
Filtered == m_pc \in {"filtered", "final", "grouped", "harvested"}

\* the probe of the node object reported it up, with a latency
ProbedUp(node) ==
  \E j \in 1..Len(m_results) :
    /\ m_results[j].node.id = node.id
    /\ m_results[j].status = "up"
    /\ m_results[j].latency # NoLatency

\* the latency the probe of the node object measured
ProbedLatency(node) ==
  LET j == CHOOSE k \in 1..Len(m_results) : m_results[k].node.id = node.id
  IN  m_results[j].latency

\* C14: after the post-probe filter every node of the list has probe status
\* up and a latency of at most max_latency, and the list holds at most
\* max_nodes nodes.
C14_FilteredUpFastAndFew ==
  Filtered =>
    /\ \A i \in 1..Len(m_filtered) :
         /\ ProbedUp(m_filtered[i])
         /\ ProbedLatency(m_filtered[i]) <= m_cfg.max_latency
    /\ Len(m_filtered) <= m_cfg.max_nodes

\* C14 as the code has it: the three filters are applied when testing is
\* enabled with filter_invalid; the latency filter only for max_latency > 0,
\* the cut only for max_nodes > 0.
C14_FilteredWhenFilterInvalid ==
  (Filtered /\ m_cfg.enabled /\ m_cfg.filter_invalid) =>
    /\ \A i \in 1..Len(m_filtered) :
         /\ ProbedUp(m_filtered[i])
         /\ m_cfg.max_latency > 0 =>
              ProbedLatency(m_filtered[i]) <= m_cfg.max_latency
    /\ m_cfg.max_nodes > 0 => Len(m_filtered) <= m_cfg.max_nodes

\* C14 witness: with max_latency 500, a node that is up with a higher latency
\* was removed and a faster one was kept
C14_Witness ==
  /\ m_pc = "filtered"
  /\ m_cfg.enabled /\ m_cfg.filter_invalid
  /\ m_cfg.max_latency = 500
  /\ \E j \in 1..Len(m_results) :
       /\ m_results[j].status = "up"
       /\ m_results[j].latency > m_cfg.max_latency
       /\ \A i \in 1..Len(m_filtered) : m_filtered[i].id # m_results[j].node.id
  /\ Len(m_filtered) = 1

\* the filter on China nodes has run
Final == m_pc \in {"final", "grouped", "harvested"}

\* the country code a node resolved to: the location the probe corrected it
\* to, else the code the analysis read from its name
ResolvedCountry(node) ==
  IF node.country # "" THEN node.country ELSE node.analysis.countryCode

\* C15: no node whose resolved country code is CN is in the node list from
\* which the artifacts are emitted.
C15_NoChinaNodeInFinal ==
  Final => \A i \in 1..Len(m_final) : ResolvedCountry(m_final[i]) # "CN"

\* C16: the number in the display name of each node of the final list is its
\* index in that list: the list is numbered 01, 02, 03, ... without gaps.
C16_FinalListNumberedInOrder ==
  Final => \A i \in 1..Len(m_final) : m_final[i].number = i

\* generateGroupedNodeFiles has returned after writing its files
Grouped == m_pc \in {"grouped", "harvested"} /\ m_files = GroupFiles(m_final)

\* the lines of a group file, none when the file was not written
LinesOf(file) ==
  IF file \in DOMAIN m_files THEN {m_files[file][k] : k \in 1..Len(m_files[file])}
  ELSE {}

\* C17: every final node classified as HK, TW, SG, US or JP is written to
\* the group file of that region.
C17_RegionFileHoldsItsNodes ==
  Grouped =>
    \A i \in 1..Len(m_final) :
      m_final[i].analysis.countryCode \in RegionFiles =>
        /\ m_final[i].analysis.countryCode \in DOMAIN m_files
        /\ GroupLine(m_final[i]) \in LinesOf(m_final[i].analysis.countryCode)

\* C18: for every node with a raw URI that is a member of an emitted group,
\* the line written for it in the group file is exactly that raw URI.
C18_RawUriWrittenVerbatim ==
  Grouped =>
    \A f \in DOMAIN m_files :
      \A i \in 1..Len(m_final) :
        (/\ (RegionKey(m_final[i]) = f \/ f \in MediaKeys(m_final[i]))
         /\ m_final[i].raw \notin {NoRaw, RawObject}) =>
          /\ m_final[i].raw \in LinesOf(f)
          /\ Cardinality({k \in 1..Len(m_files[f]) :
                            m_files[f][k] \in {m_final[i].raw, GroupLine(m_final[i])}}) = 1

\* C18 witness: a group file was written for a group that holds a node with
\* a raw URI next to a node parsed from a record
C18_Witness ==
  /\ Grouped
  /\ \E f \in DOMAIN m_files :
       \E i, j \in 1..Len(m_final) :
         /\ f \in MediaKeys(m_final[i]) /\ f \in MediaKeys(m_final[j])
         /\ m_final[i].raw = RawUri(m_final[i].id)
         /\ m_final[j].raw = RawObject
         /\ m_final[i].raw \in LinesOf(f)

\* the proxy URLs of a sequence
UrlsOf(proxies) == {proxies[k] : k \in 1..Len(proxies)}

\* the nodes of the run that passed the probe filters, are classified CN at
\* the end and speak a proxy protocol
EgressNodes ==
  {m_filtered[i] : i \in {j \in 1..Len(m_filtered) :
                            /\ ResolvedCountry(m_filtered[j]) = "CN"
                            /\ m_filtered[j].type \in {"http", "https", "socks5"}}}

\* C19: after a run the egress-proxy cache holds exactly the proxy URLs of
\* the nodes of the run finally classified CN with protocol http, https or
\* socks5, and the next run loads them.
C19_CacheHoldsEgressProxies ==
  m_pc = "harvested" =>
    /\ UrlsOf(m_cache) = {ProxyUrl(n) : n \in EgressNodes}
    /\ UrlsOf(loadChinaProxies(m_cache)) = {ProxyUrl(n) : n \in EgressNodes}


(***************************************************************************)
(* Properties of the IP locator                                            *)
(***************************************************************************)
\* C20: locate sends a request only to a provider whose status is ready, and
\* when no provider is ready it fails with LocateError instead of sending a
\* request.
C20_RequestsOnlyToReadyProviders ==
  /\ \A k \in 1..Len(l_requests) : l_requests[k].status = "ready"
  /\ \A c \in DOMAIN l_calls :
       (l_calls[c].noneReady /\ l_calls[c].pc = "returned") =>
         l_calls[c].result = "LocateError"

\* C21: on a rate-limit response a call of locate marks the provider
\* limited, advances and retries once: one call of locate sends at most two
\* requests to the providers.
C21_AtMostTwoRequestsPerCall ==
  \A c \in DOMAIN l_calls : l_calls[c].requests <= 2

\* C25: the provider a call reads from currentProvider after its response
\* arrived, to parse the response or to mark it limited, is the provider the
\* call sent its request to.
C25_ResponseHandledWithItsProvider ==
  \A c \in DOMAIN l_calls :
    l_calls[c].used # 0 => l_calls[c].used = l_calls[c].usedFor

\* C29: within one counter window no provider is sent more requests than its
\* rateLimit (requestCounter counts the requests sent since the last reset).
C29_CounterWithinRateLimit ==
  \A p \in ProviderIds : l_counter[p] <= rateLimit[p]


(***************************************************************************)
(* Further properties of the sync run                                      *)
(***************************************************************************)
\* C27: a run that finishes emitting its artifacts emits the completion
\* event exactly once.
C27_CompletionEventOnce ==
  r_stagesDone =>
    Cardinality({i \in 1..Len(r_events) : r_events[i].type = "conversion:complete"}) = 1


(***************************************************************************)
(* Further properties of the fetcher                                       *)
(***************************************************************************)
\* C28: the User-Agent sequence of a fetch call does not depend on earlier
\* calls on the same fetcher: a call made without headers of its own sends
\* its first attempt with the User-Agent the fetcher was configured with.
C28_FirstAttemptUsesConfiguredUA ==
  (f_shared /\ Len(f_sent) >= 1) => f_sent[1] = f_configUA

(***************************************************************************)
(* Properties of the worker                                                *)
(***************************************************************************)

\* C22: GET /api/health is answered with HTTP 503 when a sub-check is down
\* and with HTTP 200 otherwise, also when sub-checks are only degraded.
C22_HealthAnswerFollowsChecks ==
  (h_requests > 0 /\ h_path = "/api/health") =>
    h_answer = IF \E i \in DOMAIN h_outcomes : ResultStatus(h_outcomes[i]) = "down"
               THEN 503 ELSE 200

(***************************************************************************)
(* Properties of the node analyzer                                         *)
(***************************************************************************)

\* the name holds the token US: the letters U, S with no letter before or
\* after them
HasTokenUS(name) ==
  \E i \in 1..(Len(name) - 1) :
    /\ name[i] = "U" /\ name[i + 1] = "S"
    /\ (i = 1 \/ name[i - 1] \notin Letters)
    /\ (i + 1 = Len(name) \/ name[i + 2] \notin Letters)

HasFlagUS(name) == \E i \in 1..Len(name) : name[i] = FlagUS

\* C23: a display name that contains the flag of the United States, or the
\* token US not embedded in another word, is classified with countryCode US.
C23_FlagOrTokenUSClassifiedUS ==
  (c_pc = "done" /\ (HasFlagUS(c_name) \/ HasTokenUS(c_name))) =>
    c_result.countryCode = "US"

(***************************************************************************)
(* Properties of the format parsers                                        *)
(***************************************************************************)

\* protocol, server, port number and credentials of each node, in order
NodeIdentities(nodes) ==
  [i \in 1..Len(nodes) |->
     [protocol |-> nodes[i].type, server |-> nodes[i].server,
      port |-> nodes[i].port.number, credentials |-> nodes[i].credentials]]

\* C24: parsing the base64 encoding of a URI list yields the same nodes (same
\* protocol, server, port and credentials, in the same order) as parsing the
\* list as plain text.
C24_Base64SameAsPlain ==
  e_done = {"plain", "base64"} => NodeIdentities(e_base64) = NodeIdentities(e_plain)

(***************************************************************************)
(* Further properties of the merge                                         *)
(***************************************************************************)

\* C30: an enabled single-node source whose content is a decodable URI of its
\* protocol contributes exactly that one node to the merged node list.
C30_SingleSourceContributesItsNode ==
  \A i \in DOMAIN r_subs :
    (r_subs[i] = "single" /\ r_outcome[i] # "pending") =>
      Cardinality({k \in DOMAIN r_allNodes : r_allNodes[k].id = i}) = 1

(***************************************************************************)
(* Properties of the notifier                                              *)
(***************************************************************************)

\* C26: the notifier sends at most one notification per event type within
\* minInterval, also when the event is emitted again while the send for the
\* first emission is in flight.
C26_OneNotificationPerInterval ==
  \A i, j \in DOMAIN b_sent :
    (i < j /\ b_sent[i].event = b_sent[j].event) =>
      b_sent[j].time - b_sent[i].time >= minInterval

====
